---------------------------- MODULE Spec2Model ----------------------------
(***************************************************************************)
(* The scripts of ilovepdfs.  Positional text replacement:                 *)
(*   scripts/pdf_replace_text.py        replace_text_at_positions,         *)
(*                                      replace_text_in_pdf, the CLI       *)
(*   scripts/pdf_replace_text_hybrid.py replace_text_at_positions, the CLI *)
(*   scripts/pdf_replace_text_redactor.py  the same with pdf-redactor      *)
(* and word_to_pdf.py, pdf_compress.py, pdf_sign.py, pdf_rotate.py.  One   *)
(* behaviour is one process running one script.                            *)
(*                                                                         *)
(* A text is a sequence of one-character strings.  A span is a record      *)
(* [text, bbox] with bbox = <<x0, y0, x1, y1>> in integer page points.  A   *)
(* page is [width, height, lines], lines being the text lines PyMuPDF      *)
(* reports (page.get_text("dict"), blocks without "lines" left out), each  *)
(* a sequence of spans.  A request is a record with the fields of the JSON *)
(* objects the scripts read.                                               *)
(***************************************************************************)
EXTENDS Integers, Sequences, FiniteSets, TLC

VARIABLES
    impl,               \* the function that runs: "positions" (pdf_replace_text.py),
                        \* "hybrid", "redactor", "in_pdf" (replace_text_in_pdf),
                        \* "word", "compress", "sign", "rotate"
    pdf_exists,         \* os.path.exists(pdf_path)
    replacements,       \* the request list passed by the caller
    doc,                \* the open document: the current content of its pages
    pc,                 \* position of the run: "start", "page", "request" (the
                        \* searches of a request), "insert" (its redactions and
                        \* insertions), "save", "done"
    replacements_by_page, \* positions: <<page index, request indices>> in dict order
    group,              \* positions: index of the page group being processed
    cursor,             \* index of the next request (hybrid: in the list, positions: in the group)
    text_dict,          \* positions: the extraction of the current page
    found,              \* what the searches of the current request found
    replacements_made,
    log,                \* what the run did, in order
    result,             \* "none" while running, then "True" or "False"
    saved,              \* the document written to output_path, <<>> while none was
    script,             \* the script whose __main__ runs, "none" for a call of a function
    argv,               \* sys.argv
    exit_code,          \* the argument of sys.exit, -1 while the process runs
    args,               \* the arguments of the function called, other than the paths
    world,              \* what the libraries and the file system will answer in this run
    compressed_size     \* pdf_compress.py main: compressed_size

\* the variables of the process around the replacement functions
process_vars == <<script, argv, exit_code, args, world, compressed_size>>

vars == <<impl, pdf_exists, replacements, doc, pc, replacements_by_page, group,
          cursor, text_dict, found, replacements_made, log, result, saved,
          script, argv, exit_code, args, world, compressed_size>>

-----------------------------------------------------------------------------
(* Text: str.strip, str.lower, re.sub(r'\s+', ''), ' '.join(s.split()),    *)
(* a in b, set(s).                                                         *)

Whitespace == {" ", "\t"}

LowerChar(c) ==
    CASE c = "A" -> "a"
      [] c = "B" -> "b"
      [] OTHER -> c

lower(t) == [i \in 1..Len(t) |-> LowerChar(t[i])]

SetMin(S) == CHOOSE m \in S : \A n \in S : m <= n
SetMax(S) == CHOOSE m \in S : \A n \in S : m >= n

strip(t) ==
    LET keep == {i \in 1..Len(t) : t[i] \notin Whitespace}
    IN  IF keep = {} THEN <<>> ELSE SubSeq(t, SetMin(keep), SetMax(keep))

IsNotWhitespace(c) == c \notin Whitespace

\* normalize_text: re.sub(r'\s+', '', text.strip())
normalize_text(t) == SelectSeq(strip(t), IsNotWhitespace)

\* ' '.join(text.strip().split())
split_join(t) ==
    LET s    == strip(t)
        idx  == [i \in 1..Len(s) |-> i]
        Kept(i) == s[i] \notin Whitespace \/ s[i - 1] \notin Whitespace
        kept == SelectSeq(idx, Kept)
    IN  [k \in 1..Len(kept) |-> IF s[kept[k]] \in Whitespace THEN " " ELSE s[kept[k]]]

\* s.replace(' ', '')
remove_spaces(t) == SelectSeq(t, LAMBDA c : c # " ")

\* Python's  a in b  on strings
In(a, b) == \E i \in 0..(Len(b) - Len(a)) : SubSeq(b, i + 1, i + Len(a)) = a

CharSet(t) == {t[i] : i \in 1..Len(t)}

\* ' '.join(parts)
RECURSIVE JoinSpace(_)
JoinSpace(parts) ==
    IF Len(parts) = 0 THEN <<>>
    ELSE IF Len(parts) = 1 THEN parts[1]
    ELSE parts[1] \o <<" ">> \o JoinSpace(Tail(parts))

-----------------------------------------------------------------------------
(* Coordinates.  The anchor of a request is converted to page points as a  *)
(* pair of exact fractions; distances are compared through the numerator   *)
(* DistN of the squared distance over the common denominator DistDen, so   *)
(* that the order of two distances and the tests against the tolerance are *)
(* those of the real numbers the script computes.                          *)

Abs(n) == IF n < 0 THEN -n ELSE n

RECURSIVE GCD(_, _)
GCD(a, b) == IF b = 0 THEN a ELSE GCD(b, a % b)

\* the fraction n/d (d > 0) in lowest terms
Frac(n, d) ==
    LET g == GCD(Abs(n), d)
    IN  IF g = 0 THEN <<0, 1>> ELSE <<n \div g, d \div g>>

tolerance == 1000

\* the fallback conversion for every request
target_fallback(r, page) == [x |-> Frac(3 * r.x, 8), y |-> Frac(3 * r.y, 8)]

\* target_x, target_y of a request on a page
target(r, page) ==
    IF r.pageWidth > 0 /\ r.pageHeight > 0
    THEN [x |-> Frac(r.x * page.width, r.pageWidth),
          y |-> Frac(r.y * page.height, r.pageHeight)]
    ELSE \* x / frontend_scale * 0.75 with frontend_scale = 2.0
         [x |-> Frac(3 * r.x, 8), y |-> Frac(3 * r.y, 8)]

\* (2 * dx * dy)^2, the denominator of every squared distance to target t
DistDen(t) == (2 * t.x[2] * t.y[2]) * (2 * t.x[2] * t.y[2])

\* numerator of x_distance^2 + y_distance^2, the distances given as
\* ax / (2 * dx) and ay / (2 * dy)
DistN(t, ax, ay) == (ax * t.y[2]) * (ax * t.y[2]) + (ay * t.x[2]) * (ay * t.x[2])

\* total_distance < limit
Within(t, n, limit) == n \div DistDen(t) < limit * limit

\* distance of a span's centre to the target
span_distance(t, bbox) ==
    DistN(t, Abs((bbox[1] + bbox[3]) * t.x[2] - 2 * t.x[1]),
             Abs((bbox[2] + bbox[4]) * t.y[2] - 2 * t.y[1]))

\* distance of a line (its x range, its y) to the target
line_distance(t, line) ==
    LET ax == IF t.x[1] < line.min_x * t.x[2]
                THEN 2 * (line.min_x * t.x[2] - t.x[1])
              ELSE IF t.x[1] > line.max_x * t.x[2]
                THEN 2 * (t.x[1] - line.max_x * t.x[2])
              ELSE 0
        ay == Abs(line.y2 * t.y[2] - 2 * t.y[1])
    IN  DistN(t, ax, ay)

\* the first entry, whatever the keys: the first candidate in page order
FirstKey(keys) == 1

\* index of the first entry of keys that is smaller than all before it and
\* not larger than any after it: the "if d < best: best = d" loop
FirstMin(keys) ==
    CHOOSE i \in 1..Len(keys) :
        /\ \A j \in 1..Len(keys) : keys[i] <= keys[j]
        /\ \A j \in 1..(i - 1) : keys[j] > keys[i]

-----------------------------------------------------------------------------
(* Spans and lines of an extraction (a sequence of PyMuPDF lines).          *)

HasText(s) == strip(s.text) # <<>>

\* the spans of the extraction in reading order, with their place
AllSpans(td) ==
    LET RECURSIVE From(_)
        From(li) ==
            IF li > Len(td) THEN <<>>
            ELSE [si \in 1..Len(td[li]) |->
                     [li |-> li, si |-> si, span |-> td[li][si]]] \o From(li + 1)
    IN  From(1)

\* the line the script builds from PyMuPDF line li (called only when the
\* line has a span with text)
BuildLine(td, li) ==
    LET withText == SelectSeq(td[li], HasText)
        y2       == withText[1].bbox[2] + withText[1].bbox[4]
        SameLine(s) == Abs((s.bbox[2] + s.bbox[4]) - y2) < 2 * tolerance
        members  == SelectSeq(withText, SameLine)
        n        == Len(members)
    IN  [src   |-> li,
         spans |-> members,
         text  |-> strip(JoinSpace([i \in 1..n |-> strip(members[i].text)])),
         y2    |-> y2,
         min_x |-> SetMin({members[i].bbox[1] : i \in 1..n}),
         max_x |-> SetMax({0} \cup {members[i].bbox[3] : i \in 1..n})]

LineHasText(fl) == \E i \in 1..Len(fl) : HasText(fl[i])

\* lines: one per PyMuPDF line that has a span with text, in page order
BuildLines(td) ==
    LET RECURSIVE From(_)
        From(li) ==
            IF li > Len(td) THEN <<>>
            ELSE IF LineHasText(td[li]) THEN <<BuildLine(td, li)>> \o From(li + 1)
            ELSE From(li + 1)
    IN  From(1)

\* the box redacted for a matched line
line_bbox(line) ==
    LET n == Len(line.spans)
    IN  <<line.min_x,
          SetMin({line.spans[i].bbox[2] : i \in 1..n}),
          line.max_x,
          SetMax({0} \cup {line.spans[i].bbox[4] : i \in 1..n})>>

-----------------------------------------------------------------------------
(* Matching of pdf_replace_text.py.  A match is a record                   *)
(*   [found, path, idx, span, score, box, first]                           *)
(* path: which search found it; idx: the PyMuPDF line; span: the span in   *)
(* that line (0 for a line); score: best_score (0, 1, 2 for a line         *)
(* request, the distance numerator DistN otherwise); box: the box to       *)
(* redact; first: the bbox of the span whose font and baseline are used.   *)

NoBox == <<0, 0, 0, 0>>

NoMatch == [found |-> FALSE, path |-> "none", idx |-> 0, span |-> 0,
            score |-> 0, box |-> NoBox, first |-> NoBox]

\* no request is a line request
never_line_replacement(old_text) == FALSE

\* is_line_replacement = ' ' in old_text.strip()
is_line_replacement(old_text) == In(<<" ">>, strip(old_text))

\* text_match of the span search
span_text_match(old_text, span_text) ==
    \/ lower(strip(old_text)) = lower(span_text)
    \/ strip(old_text) = span_text

\* the span search: the span equal to old_text nearest to the target
best_span_match(old_text, td, t) ==
    LET IsCandidate(e) ==
            /\ HasText(e.span)
            /\ span_text_match(old_text, strip(e.span.text))
            /\ Within(t, span_distance(t, e.span.bbox), tolerance * 2)
        cands == SelectSeq(AllSpans(td), IsCandidate)
        keys  == [k \in 1..Len(cands) |-> span_distance(t, cands[k].span.bbox)]
        best  == cands[FirstMin(keys)]
    IN  IF Len(cands) = 0 THEN NoMatch
        ELSE [found |-> TRUE, path |-> "span", idx |-> best.li, span |-> best.si,
              score |-> span_distance(t, best.span.bbox),
              box |-> best.span.bbox, first |-> best.span.bbox]

\* the test with a floor of 0.5 instead of 0.8
SimilarityAboveHalf(intersection, union) == 10 * intersection > 5 * union

\* similarity > 0.8, similarity = intersection / union
SimilarityAccepted(intersection, union) == 10 * intersection > 8 * union

\* the test of the first loop over the lines of a line request
LineRelation(frontend_normalized, pdf_normalized) ==
    \/ frontend_normalized = pdf_normalized
    \/ In(frontend_normalized, pdf_normalized)
    \/ In(pdf_normalized, frontend_normalized)

\* the test of the fuzzy loop of a line request
FuzzyRelation(normalized_old, normalized_line) ==
    LET old_chars  == CharSet(lower(normalized_old))
        line_chars == CharSet(lower(normalized_line))
    IN  /\ old_chars # {}
        /\ line_chars # {}
        /\ \/ SimilarityAccepted(Cardinality(old_chars \cap line_chars),
                                 Cardinality(old_chars \cup line_chars))
           \/ In(lower(normalized_old), lower(normalized_line))
           \/ In(lower(normalized_line), lower(normalized_old))

LineMatch(line, path, score) ==
    [found |-> TRUE, path |-> path, idx |-> line.src, span |-> 0, score |-> score,
     box |-> line_bbox(line), first |-> line.spans[1].bbox]

\* the search of a line request: the first line equal to, containing or
\* contained in old_text; failing that the first line the fuzzy test accepts
line_request_match(old_text, lines) ==
    LET normalized_old == normalize_text(old_text)
        Norm(i) == lower(normalize_text(lines[i].text))
        hits  == {i \in 1..Len(lines) : LineRelation(lower(normalized_old), Norm(i))}
        fuzzy == {i \in 1..Len(lines) :
                     FuzzyRelation(normalized_old, normalize_text(lines[i].text))}
    IN  IF hits # {}
        THEN LineMatch(lines[SetMin(hits)], "line",
                       IF Norm(SetMin(hits)) = lower(normalized_old) THEN 0 ELSE 1)
        ELSE IF fuzzy # {} THEN LineMatch(lines[SetMin(fuzzy)], "fuzzy", 2)
        ELSE NoMatch

\* text_match of the search by position of a single-word request
position_text_match(normalized_old, normalized_line) ==
    LET old_chars  == CharSet(remove_spaces(lower(normalized_old)))
        line_chars == CharSet(remove_spaces(lower(normalized_line)))
    IN  \/ lower(normalized_old) = lower(normalized_line)
        \/ In(lower(normalized_old), lower(normalized_line))
        \/ In(lower(normalized_line), lower(normalized_old))
        \/ /\ old_chars # {}
           /\ line_chars # {}
           /\ SimilarityAccepted(Cardinality(old_chars \cap line_chars),
                                 Cardinality(old_chars \cup line_chars))

\* the search by position: the matching line nearest to the target
position_match(old_text, lines, t) ==
    LET normalized_old == normalize_text(old_text)
        idx   == [i \in 1..Len(lines) |-> i]
        IsCandidate(i) ==
            /\ position_text_match(normalized_old, split_join(lines[i].text))
            /\ Within(t, line_distance(t, lines[i]), tolerance * 5)
        cands == SelectSeq(idx, IsCandidate)
        keys  == [k \in 1..Len(cands) |-> line_distance(t, lines[cands[k]])]
        best  == lines[cands[FirstMin(keys)]]
    IN  IF Len(cands) = 0 THEN NoMatch
        ELSE LineMatch(best, "position", line_distance(t, best))

\* the lines the last resort of a line request redacts, in page order, each
\* with its padded box: the PyMuPDF lines equal to old_text up to whitespace
\* runs and case
last_resort_matches(old_text, td) ==
    LET normalized_old == split_join(old_text)
        Parts(li) == SelectSeq(td[li], HasText)
        Text(li)  == JoinSpace([k \in 1..Len(Parts(li)) |-> strip(Parts(li)[k].text)])
        Hit(li)   == /\ LineHasText(td[li])
                     /\ lower(normalized_old) = lower(split_join(Text(li)))
        Box(li)   == LET b == Parts(li)
                         n == Len(b)
                     IN  <<SetMin({b[k].bbox[1] : k \in 1..n}) - 1,
                           SetMin({b[k].bbox[2] : k \in 1..n}) - 1,
                           SetMax({b[k].bbox[3] : k \in 1..n}) + 1,
                           SetMax({b[k].bbox[4] : k \in 1..n}) + 1>>
        idx   == [li \in 1..Len(td) |-> li]
        hits  == SelectSeq(idx, Hit)
    IN  [k \in 1..Len(hits) |->
            [found |-> TRUE, path |-> "last_resort", idx |-> hits[k], span |-> 0,
             score |-> 0, box |-> Box(hits[k]), first |-> Parts(hits[k])[1].bbox]]

-----------------------------------------------------------------------------
(* Matching of pdf_replace_text_hybrid.py: the first PyMuPDF line equal    *)
(* to, containing or contained in old_text.                                *)

hybrid_match(old_text, td) ==
    LET normalized_old == normalize_text(old_text)
        Parts(li) == SelectSeq(td[li], HasText)
        Text(li)  == JoinSpace([k \in 1..Len(Parts(li)) |-> strip(Parts(li)[k].text)])
        Hit(li)   == /\ LineHasText(td[li])
                     /\ LineRelation(lower(normalized_old),
                                     lower(normalize_text(Text(li))))
        hits == {li \in 1..Len(td) : Hit(li)}
        li   == SetMin(hits)
        b    == Parts(li)
        n    == Len(b)
    IN  IF hits = {} THEN NoMatch
        ELSE [found |-> TRUE, path |-> "hybrid", idx |-> li, span |-> 0, score |-> 0,
              box |-> <<SetMin({b[k].bbox[1] : k \in 1..n}),
                        SetMin({b[k].bbox[2] : k \in 1..n}),
                        SetMax({0} \cup {b[k].bbox[3] : k \in 1..n}),
                        SetMax({0} \cup {b[k].bbox[4] : k \in 1..n})>>,
              first |-> b[1].bbox]

-----------------------------------------------------------------------------
(* Redaction and insertion.  The calls into PyMuPDF are the environment:   *)
(* env.tb[k] is what the k-th insert_textbox call of a request does        *)
(*   "fit"   returns a value >= len(new_text), the text is written         *)
(*   "short" returns a value in [0, len(new_text)), the text is written    *)
(*   "neg"   returns a negative value, nothing is written                  *)
(*   "raise" raises                                                        *)
(* and the k-th insert_text call of a request raises when env.all or       *)
(* k <= env.n and writes the text otherwise.  Every success ends the       *)
(* processing of the request, so the number of calls that raise before the *)
(* first success is all that the outcome of a request depends on.          *)
(*                                                                         *)
(* An event of the log is a record                                         *)
(*   [req, kind, path, outcome, idx, span, score, box]                     *)
(* kind "match" / "redact": path, idx, span, score, box of the match;      *)
(* kind "insert": path is the strategy ("textbox", "baseline", "helv",     *)
(*   "default"), outcome what the call did, box the place of the text;     *)
(* kind "made": replacements_made += 1;                                    *)
(* kind "warning": outcome "invalid_page", "could_not_insert" or           *)
(*   "not_found"; kind "skip": the request has no oldText.                 *)

Ev(req, kind, path, outcome, m, box) ==
    [req |-> req, kind |-> kind, path |-> path, outcome |-> outcome,
     idx |-> m.idx, span |-> m.span, score |-> m.score, box |-> box]

Raises(env, k) == env.all \/ k <= env.n

\* textbox_rect: the box with its y mirrored in the page height
textbox_rect(box, page_height) ==
    <<box[1], page_height - box[4], box[3], page_height - box[2]>>

\* where insert_text at fitz.Point(x, page_height - y1) puts a text of the
\* size of box: on the baseline, rightwards and upwards
baseline_rect(x, y1, box, page_height) ==
    <<x, (page_height - y1) - (box[4] - box[2]),
      x + (box[3] - box[1]), page_height - y1>>

\* the insert_text calls of a cascade, in order, up to the first that does
\* not raise; calls counts the insert_text calls the request made before
RECURSIVE insert_texts(_, _, _, _, _, _)
insert_texts(req, env, calls, strategies, m, rect) ==
    IF Len(strategies) = 0
    THEN [events |-> <<Ev(req, "warning", m.path, "could_not_insert", m, rect)>>,
          ok |-> FALSE, calls |-> calls]
    ELSE IF Raises(env, calls + 1)
    THEN LET rest == insert_texts(req, env, calls + 1, Tail(strategies), m, rect)
         IN  [rest EXCEPT !.events =
                 <<Ev(req, "insert", strategies[1], "raise", m, rect)>> \o @]
    ELSE [events |-> <<Ev(req, "insert", strategies[1], "ok", m, rect),
                       Ev(req, "made", m.path, "", m, rect)>>,
          ok |-> TRUE, calls |-> calls + 1]

\* the baseline insertion with the original font after every textbox outcome
always_baseline(tb) == <<"baseline", "helv", "default">>

\* no baseline insertion with the original font after any textbox outcome
never_baseline(tb) == <<"helv", "default">>

\* the strategies tried after insert_textbox did what tb says
after_textbox(tb) ==
    IF tb = "raise" THEN <<"helv", "default">>
    ELSE <<"baseline", "helv", "default">>

\* redaction of the match and the insertion cascade that starts with
\* insert_textbox; base is the point of the insert_text calls
redact_and_insert(req, env, tbcalls, calls, m, base, page_height) ==
    LET tb   == env.tb[tbcalls + 1]
        head == <<Ev(req, "match", m.path, "", m, m.box),
                  Ev(req, "redact", m.path, "", m, m.box),
                  Ev(req, "insert", "textbox", tb, m, textbox_rect(m.box, page_height))>>
        rest == insert_texts(req, env, calls, after_textbox(tb), m,
                             baseline_rect(base[1], base[2], m.box, page_height))
    IN  IF tb = "fit"
        THEN [events |-> head \o <<Ev(req, "made", m.path, "", m, m.box)>>,
              ok |-> TRUE, calls |-> calls]
        ELSE [rest EXCEPT !.events = head \o @]

\* the last resort: each matching line in turn is redacted and the three
\* insert_text strategies tried, until one succeeds
RECURSIVE last_resort(_, _, _, _, _)
last_resort(req, env, calls, ms, page_height) ==
    IF Len(ms) = 0 THEN [events |-> <<>>, ok |-> FALSE, calls |-> calls]
    ELSE LET m    == ms[1]
             head == <<Ev(req, "match", m.path, "", m, m.box),
                       Ev(req, "redact", m.path, "", m, m.box)>>
             \* min_x, max_y of the line: the box without its padding
             try  == insert_texts(req, env, calls, <<"baseline", "helv", "default">>, m,
                                  baseline_rect(m.box[1] + 1, m.box[4] - 1,
                                                m.box, page_height))
             rest == last_resort(req, env, try.calls, Tail(ms), page_height)
         IN  IF try.ok THEN [try EXCEPT !.events = head \o @]
             ELSE [rest EXCEPT !.events = head \o try.events \o @]

Overlap(a, b) == a[1] < b[3] /\ b[1] < a[3] /\ a[2] < b[4] /\ b[2] < a[4]

\* page.add_redact_annot(rect); page.apply_redactions(): the text under the
\* box is erased
apply_redactions(lines, rect) ==
    LET Stays(s) == ~Overlap(s.bbox, rect)
        left == [i \in 1..Len(lines) |-> SelectSeq(lines[i], Stays)]
    IN  SelectSeq(left, LAMBDA l : Len(l) > 0)

Written(e) == e.kind = "insert" /\ e.outcome \in {"fit", "short", "ok"}

\* the content of the page after the events of one request
RECURSIVE apply_events(_, _, _)
apply_events(lines, events, new_text) ==
    IF Len(events) = 0 THEN lines
    ELSE LET e == events[1]
             next == IF e.kind = "redact" THEN apply_redactions(lines, e.box)
                     ELSE IF Written(e) /\ Len(new_text) > 0
                       THEN Append(lines, <<[text |-> new_text, bbox |-> e.box]>>)
                     ELSE lines
         IN  apply_events(next, Tail(events), new_text)

-----------------------------------------------------------------------------
(* One pass of the request loop.                                           *)

Nothing(calls) == [events |-> <<>>, ok |-> FALSE, calls |-> calls]

(* pdf_replace_text.py: the body of  for replacement in page_replacements.  *)
(* The searches read only the request and the extraction, so their results  *)
(* are gathered first (positions_matches); process_positions then follows   *)
(* the script: span, line, last resort, each search used only where the     *)
(* script runs it.  The result is [events, brk], brk saying that the body   *)
(* ended in  break  (which leaves the loop over the requests of the page).  *)

\* sm: best_span_match; lm: best_match; lr: the lines of the last resort
positions_matches(r, page, td) ==
    LET isline == is_line_replacement(r.oldText)
    IN  [sm |-> IF isline THEN NoMatch
                ELSE best_span_match(r.oldText, td, target(r, page)),
         lm |-> IF isline THEN line_request_match(r.oldText, BuildLines(td))
                ELSE position_match(r.oldText, BuildLines(td), target(r, page)),
         lr |-> IF isline THEN last_resort_matches(r.oldText, td) ELSE <<>>]

\* if not found_match: the last resort of a line request, then the warning
positions_last_resort(req, events, lr) ==
    IF lr.ok THEN [events |-> events \o lr.events, brk |-> FALSE]
    ELSE [events |-> events \o lr.events
                     \o <<Ev(req, "warning", "none", "not_found", NoMatch, NoBox)>>,
          brk |-> FALSE]

\* if best_match: redact the line, insert; on success  break
positions_line_phase(req, page, env, ms, events, lp) ==
    IF lp.ok THEN [events |-> events \o lp.events, brk |-> TRUE]
    ELSE positions_last_resort(req, events \o lp.events,
            last_resort(req, env, lp.calls, ms.lr, page.height))

\* the two phases in the other order: the matched line first, the matched
\* span only when no line matched
positions_line_first(req, page, env, ms, sp) ==
    IF ms.lm.found
    THEN positions_line_phase(req, page, env, ms, <<>>,
            redact_and_insert(req, env, 0, 0, ms.lm,
                              <<ms.lm.first[1], ms.lm.first[4]>>, page.height))
    ELSE IF sp.ok THEN [events |-> sp.events, brk |-> TRUE]
    ELSE positions_line_phase(req, page, env, ms, sp.events, Nothing(sp.calls))

\* if best_span_match: redact the span, insert; on success  break;
\* if not found_match or is_line_replacement: the search of a line
positions_span_phase(req, page, env, ms, sp) ==
    IF sp.ok THEN [events |-> sp.events, brk |-> TRUE]
    ELSE positions_line_phase(req, page, env, ms, sp.events,
            IF ms.lm.found
            THEN redact_and_insert(req, env, IF ms.sm.found THEN 1 ELSE 0, sp.calls,
                                   ms.lm, <<ms.lm.first[1], ms.lm.first[4]>>,
                                   page.height)
            ELSE Nothing(sp.calls))

process_positions(req, r, page, env, ms) ==
    IF Len(r.oldText) = 0
    THEN [events |-> <<Ev(req, "skip", "none", "", NoMatch, NoBox)>>, brk |-> FALSE]
    ELSE positions_span_phase(req, page, env, ms,
            IF ms.sm.found
            THEN redact_and_insert(req, env, 0, 0, ms.sm,
                                   <<ms.sm.box[1], ms.sm.box[4]>>, page.height)
            ELSE Nothing(0))

\* a check that takes page 1 only
first_page_only(r, d) == r.pageNum = 1

\* not (page_num < 0 or page_num >= len(doc)),  page_num = pageNum - 1
ValidPage(r, d) == r.pageNum - 1 >= 0 /\ r.pageNum - 1 < Len(d)

\* pdf_replace_text_hybrid.py: the search of one request (NoMatch for a
\* request that is skipped before the search)
hybrid_request_match(r, d) ==
    IF ValidPage(r, d) /\ Len(strip(r.oldText)) > 0
    THEN hybrid_match(strip(r.oldText), d[r.pageNum].lines)
    ELSE NoMatch

\* pdf_replace_text_hybrid.py: the body of  for replacement in replacements
process_hybrid(req, r, d, env, m) ==
    IF ~ValidPage(r, d)
    THEN <<Ev(req, "warning", "none", "invalid_page", NoMatch, NoBox)>>
    ELSE IF Len(strip(r.oldText)) = 0
    THEN <<Ev(req, "skip", "none", "", NoMatch, NoBox)>>
    ELSE IF ~m.found
    THEN <<Ev(req, "warning", "none", "not_found", NoMatch, NoBox)>>
    ELSE redact_and_insert(req, env, 0, 0, m, <<m.box[1], m.box[4]>>,
                           d[r.pageNum].height).events

\* the grouping with the pages in the order of their numbers
group_by_page_number(reqs, d) ==
    LET idx   == [i \in 1..Len(reqs) |-> i]
        valid == SelectSeq(idx, LAMBDA i : ValidPage(reqs[i], d))
        Has(pg) == \E k \in 1..Len(valid) : reqs[valid[k]].pageNum = pg
        pages == SelectSeq([pg \in 1..Len(d) |-> pg], Has)
    IN  [g \in 1..Len(pages) |->
            [page |-> pages[g],
             reqs |-> SelectSeq(valid, LAMBDA i : reqs[i].pageNum = pages[g])]]

\* replacements_by_page: the valid requests grouped by page, the pages in
\* the order of their first request (a dict keeps insertion order)
group_by_page(reqs, d) ==
    LET idx   == [i \in 1..Len(reqs) |-> i]
        valid == SelectSeq(idx, LAMBDA i : ValidPage(reqs[i], d))
        First(k) == \A j \in 1..(k - 1) : reqs[valid[j]].pageNum # reqs[valid[k]].pageNum
        firsts == SelectSeq([k \in 1..Len(valid) |-> k], First)
    IN  [g \in 1..Len(firsts) |->
            [page |-> reqs[valid[firsts[g]]].pageNum,
             reqs |-> SelectSeq(valid, LAMBDA i :
                                   reqs[i].pageNum = reqs[valid[firsts[g]]].pageNum)]]

invalid_page_warnings(reqs, d) ==
    LET idx == [i \in 1..Len(reqs) |-> i]
        bad == SelectSeq(idx, LAMBDA i : ~ValidPage(reqs[i], d))
    IN  [k \in 1..Len(bad) |->
            Ev(bad[k], "warning", "none", "invalid_page", NoMatch, NoBox)]

made_in(events) == Len(SelectSeq(events, LAMBDA e : e.kind = "made"))

-----------------------------------------------------------------------------
(* The environment of one request.                                         *)

MaxRaise == 3

TextboxOutcomes == {"fit", "short", "neg", "raise"}

\* every way the insertion calls of one request can go
Envs ==
    {[tb |-> <<a, b>>, all |-> FALSE, n |-> k] :
        a \in TextboxOutcomes, b \in TextboxOutcomes, k \in 0..MaxRaise}
    \cup {[tb |-> <<a, b>>, all |-> TRUE, n |-> 0] :
        a \in TextboxOutcomes, b \in TextboxOutcomes}

\* the insertion calls of a run of several requests: every call works, the
\* text does not fit its box, the font of the text is unknown to PyMuPDF,
\* or every call raises
RunEnvs ==
    {[tb |-> <<"fit", "fit">>, all |-> FALSE, n |-> 0],
     [tb |-> <<"neg", "neg">>, all |-> FALSE, n |-> 0],
     [tb |-> <<"raise", "raise">>, all |-> FALSE, n |-> 1],
     [tb |-> <<"raise", "raise">>, all |-> TRUE, n |-> 0]}

-----------------------------------------------------------------------------
(* The run.                                                                *)

\* a check that lets every input path through
file_assumed_present(exists) == FALSE

\* if not os.path.exists(pdf_path): the input file is missing
missing_file(exists) == ~exists

\* the checks before the document is opened, fitz.open, the grouping
Start ==
    /\ pc = "start"
    /\ impl \in {"positions", "hybrid"}
    /\ IF missing_file(pdf_exists) \/ Len(replacements) = 0
       THEN /\ pc' = "done"
            /\ result' = "False"
            /\ UNCHANGED <<replacements_by_page, log, cursor, group>>
       ELSE IF impl = "positions"
       THEN /\ replacements_by_page' = group_by_page(replacements, doc)
            /\ log' = invalid_page_warnings(replacements, doc)
            /\ group' = 1
            /\ pc' = "page"
            /\ UNCHANGED <<result, cursor>>
       ELSE /\ cursor' = 1
            /\ pc' = "request"
            /\ UNCHANGED <<result, replacements_by_page, log, group>>
    /\ UNCHANGED process_vars
    /\ UNCHANGED <<impl, pdf_exists, replacements, doc, text_dict, found,
                   replacements_made, saved>>

\* for page_num, page_replacements in replacements_by_page.items():
\*     text_dict = page.get_text("dict")
BeginPage ==
    /\ pc = "page"
    /\ IF group > Len(replacements_by_page)
       THEN /\ pc' = "save"
            /\ UNCHANGED <<text_dict, cursor>>
       ELSE /\ text_dict' = doc[replacements_by_page[group].page].lines
            /\ cursor' = 1
            /\ pc' = "request"
    /\ UNCHANGED process_vars
    /\ UNCHANGED <<impl, pdf_exists, replacements, doc, replacements_by_page, group,
                   found, replacements_made, log, result, saved>>

\* pdf_replace_text.py: the searches of one request of the current page
Search ==
    /\ pc = "request"
    /\ impl = "positions"
    /\ LET g == replacements_by_page[group]
       IN  found' = positions_matches(replacements[g.reqs[cursor]], doc[g.page],
                                      text_dict)
    /\ pc' = "insert"
    /\ UNCHANGED process_vars
    /\ UNCHANGED <<impl, pdf_exists, replacements, doc, replacements_by_page, group,
                   cursor, text_dict, replacements_made, log, result, saved>>

\* pdf_replace_text.py: the redactions and insertions of the request
Insert(envs) ==
    /\ pc = "insert"
    /\ impl = "positions"
    /\ LET g    == replacements_by_page[group]
           req  == g.reqs[cursor]
           r    == replacements[req]
       IN  \E env \in envs :
             LET out == process_positions(req, r, doc[g.page], env, found)
             IN  /\ doc' = [doc EXCEPT ![g.page].lines =
                               apply_events(@, out.events, r.newText)]
                 /\ log' = log \o out.events
                 /\ replacements_made' = replacements_made + made_in(out.events)
                 /\ IF out.brk \/ cursor = Len(g.reqs)
                    THEN /\ group' = group + 1
                         /\ pc' = "page"
                         /\ UNCHANGED cursor
                    ELSE /\ cursor' = cursor + 1
                         /\ pc' = "request"
                         /\ UNCHANGED group
    /\ UNCHANGED process_vars
    /\ UNCHANGED <<impl, pdf_exists, replacements, replacements_by_page, text_dict,
                   found, result, saved>>

\* pdf_replace_text_hybrid.py: the search of one request of the list, on a
\* fresh extraction of its page
SearchHybrid ==
    /\ pc = "request"
    /\ impl = "hybrid"
    /\ found' = [sm |-> NoMatch,
                 lm |-> hybrid_request_match(replacements[cursor], doc),
                 lr |-> <<>>]
    /\ pc' = "insert"
    /\ UNCHANGED process_vars
    /\ UNCHANGED <<impl, pdf_exists, replacements, doc, replacements_by_page, group,
                   cursor, text_dict, replacements_made, log, result, saved>>

\* pdf_replace_text_hybrid.py: the redaction and insertion of the request
InsertHybrid(envs) ==
    /\ pc = "insert"
    /\ impl = "hybrid"
    /\ LET r == replacements[cursor]
       IN  \E env \in envs :
             LET events == process_hybrid(cursor, r, doc, env, found.lm)
             IN  /\ doc' = IF ValidPage(r, doc)
                           THEN [doc EXCEPT ![r.pageNum].lines =
                                    apply_events(@, events, strip(r.newText))]
                           ELSE doc
                 /\ log' = log \o events
                 /\ replacements_made' = replacements_made + made_in(events)
    /\ cursor' = cursor + 1
    /\ pc' = IF cursor = Len(replacements) THEN "save" ELSE "request"
    /\ UNCHANGED process_vars
    /\ UNCHANGED <<impl, pdf_exists, replacements, replacements_by_page, group,
                   text_dict, found, result, saved>>

\* doc.save(output_path); return True
Save ==
    /\ pc = "save"
    /\ saved' = <<doc>>
    /\ result' = "True"
    /\ pc' = "done"
    /\ UNCHANGED process_vars
    /\ UNCHANGED <<impl, pdf_exists, replacements, doc, replacements_by_page, group,
                   cursor, text_dict, found, replacements_made, log>>

NoMatches == [sm |-> NoMatch, lm |-> NoMatch, lr |-> <<>>]

\* a call without further arguments, a run that asks the world nothing
NoArgs == [function |-> "replace_text_at_positions"]
NoWorld == [asked |-> "nothing"]

InitRun(d, reqs, exists, which) ==
    /\ impl = which
    /\ pdf_exists = exists
    /\ replacements = reqs
    /\ doc = d
    /\ pc = "start"
    /\ replacements_by_page = <<>>
    /\ group = 0
    /\ cursor = 0
    /\ text_dict = <<>>
    /\ found = NoMatches
    /\ replacements_made = 0
    /\ log = <<>>
    /\ result = "none"
    /\ saved = <<>>
    /\ script = "none"
    /\ argv = <<>>
    /\ exit_code = -1
    /\ args = NoArgs
    /\ world = NoWorld
    /\ compressed_size = 0

-----------------------------------------------------------------------------
(* Inputs.  A page is laid out in rows of spans: the span in row i, column *)
(* j has the box SpanBox(i, j).                                            *)

SpanBox(row, col) ==
    <<7 * col - 5, 10 * row - 8, 7 * col + 1, 10 * row - 4>>

\* the page whose PyMuPDF line i has the spans with the texts rows[i]
PageOf(rows) ==
    [width |-> 20, height |-> 40,
     lines |-> [i \in 1..Len(rows) |->
                  [j \in 1..Len(rows[i]) |->
                      [text |-> rows[i][j], bbox |-> SpanBox(i, j)]]]]

\* a request; anchor is <<x, y, pageWidth, pageHeight>> in pixels
RequestOf(old_text, new_text, page_num, anchor) ==
    [oldText |-> old_text, newText |-> new_text, pageNum |-> page_num,
     x |-> anchor[1], y |-> anchor[2],
     pageWidth |-> anchor[3], pageHeight |-> anchor[4]]

\* no anchor given: every field defaults to 0
NoAnchor == <<0, 0, 0, 0>>
\* the centre of the first span of row 2, in a viewport twice the page
Row2Anchor == <<10, 28, 40, 80>>

MaxReqs == 2
MaxLines == 2

SeqsUpTo(S, n) == UNION {[1..k -> S] : k \in 0..n}

\* the runs of Spec: documents of one or two pages, lists of up to MaxReqs
\* of these requests
RunDocs ==
    {<<PageOf(<< <<<<"a", " ", "b">>, <<"c">>>> >>)>>,
     <<PageOf(<< <<<<"c">>, <<"a", "b">>>> >>),
       PageOf(<< <<<<"a", "b">>>>, <<<<"a", "b">>>> >>)>>,
     <<PageOf(<< <<<<"a", "b">>>>, <<<<"a", "b">>>> >>),
       PageOf(<< <<<<"a", "\t", "b">>, <<"c">>>> >>)>>}

RunRequests ==
    {RequestOf(<<"a", "b">>, <<"d">>, 1, NoAnchor),
     RequestOf(<<"a", "b">>, <<"d">>, 1, Row2Anchor),
     RequestOf(<<"a", " ", "b">>, <<"d">>, 1, Row2Anchor),
     RequestOf(<<"a", "\t", "b">>, <<"d">>, 2, NoAnchor),
     RequestOf(<<" ">>, <<"d">>, 1, NoAnchor),
     RequestOf(<<>>, <<"d">>, 1, NoAnchor),
     RequestOf(<<"e">>, <<"d">>, 1, NoAnchor),
     RequestOf(<<"a", "b">>, <<"d">>, 2, NoAnchor)}

Init ==
    \E d \in RunDocs, reqs \in SeqsUpTo(RunRequests, MaxReqs),
       exists \in BOOLEAN, which \in {"positions", "hybrid"} :
        InitRun(d, reqs, exists, which)

Next ==
    \/ Start
    \/ BeginPage
    \/ Search
    \/ Insert(RunEnvs)
    \/ SearchHybrid
    \/ InsertHybrid(RunEnvs)
    \/ Save

Spec == Init /\ [][Next]_vars

\* the runs of SpecMatch: one request on a page of up to MaxLines lines of
\* one span each, with every outcome of the insertion calls; the anchor
\* varies for pdf_replace_text.py, the only script that reads it
LineTexts ==
    {<<"a", "b">>, <<"A", "B">>, <<"b">>, <<"a", " ", "b", "c">>,
     <<"d", "c", "b", "a">>, <<"d", "c", "b", "a", "e">>, <<"b", "a">>}

OldTexts ==
    {<<"a", "b">>, <<"a", " ", "b">>, <<"b", "c">>, <<"b", " ", "c">>,
     <<"a", "b", "c", "d">>, <<"a", "b", " ", "c", "d">>, <<"a", "b", " ", "c">>,
     <<"e", " ", "e">>, <<"e">>}

MatchPages ==
    {PageOf([i \in 1..Len(texts) |-> <<texts[i]>>]) :
        texts \in SeqsUpTo(LineTexts, MaxLines) \ {<<>>}}

InitMatch ==
    \E page \in MatchPages, old_text \in OldTexts, anchor \in {NoAnchor, Row2Anchor},
       which \in {"positions", "hybrid"} :
        /\ which = "hybrid" => anchor = NoAnchor
        /\ InitRun(<<page>>, <<RequestOf(old_text, <<"d">>, 1, anchor)>>, TRUE, which)

NextMatch ==
    \/ Start
    \/ BeginPage
    \/ Search
    \/ Insert(Envs)
    \/ SearchHybrid
    \/ InsertHybrid(Envs)
    \/ Save

SpecMatch == InitMatch /\ [][NextMatch]_vars

-----------------------------------------------------------------------------
(* The request a run is at.  In a state with pc = "insert" the searches of *)
(* the request were made (found) and its redactions and insertions are the *)
(* next step.                                                              *)

current_request ==
    IF impl = "positions" THEN replacements[replacements_by_page[group].reqs[cursor]]
    ELSE replacements[cursor]

Searched == pc = "insert" /\ ValidPage(current_request, doc)

\* the extraction the request was matched against
Extraction ==
    IF impl = "positions" THEN text_dict ELSE doc[current_request.pageNum].lines

\* the PyMuPDF lines of an extraction that have text
TextLines(td) == {li \in 1..Len(td) : LineHasText(td[li])}

\* the normalized text of line li, of the request
LineNorm(td, li) == lower(normalize_text(BuildLine(td, li).text))
OldNorm == lower(normalize_text(current_request.oldText))

\* the match the request redacts first
Selected == IF found.sm.found THEN found.sm ELSE found.lm

\* the normalized text of what a match selected: a span or a line
SelectedNorm(td, m) ==
    IF m.span > 0 THEN lower(normalize_text(td[m.idx][m.span].text))
    ELSE LineNorm(td, m.idx)

Substring(a, b) == In(a, b) \/ In(b, a)

\* 10 * Jaccard similarity of the character sets of a and b against 8
Jaccard10(a, b) == 10 * Cardinality(CharSet(a) \cap CharSet(b))
Union8(a, b) == 8 * Cardinality(CharSet(a) \cup CharSet(b))

\* the events the step to the next state appends to the log
NewEvents == SubSeq(log', Len(log) + 1, Len(log'))

\* t with its first occurrence of old replaced by new
Replace(t, old, new) ==
    LET at == SetMin({i \in 1..(Len(t) - Len(old) + 1) :
                         SubSeq(t, i, i + Len(old) - 1) = old})
    IN  SubSeq(t, 1, at - 1) \o new \o SubSeq(t, at + Len(old), Len(t))

\* the text of a page: its spans in reading order
RECURSIVE PageText(_)
PageText(lines) ==
    IF Len(lines) = 0 THEN <<>>
    ELSE JoinSpace([k \in 1..Len(lines[1]) |-> lines[1][k].text])
         \o PageText(Tail(lines))

-----------------------------------------------------------------------------
(* C1: on a page whose only line is one span, a request whose oldText is a *)
(* strict substring of the line and whose insertion succeeded leaves the   *)
(* line with oldText substituted by newText, and replacements_made is 1.   *)
(* (One page, one request: text_dict is the page as it was.)               *)
C1_OnlyOldTextReplaced ==
    (/\ pc = "done" /\ result = "True" /\ impl = "positions"
     /\ Len(replacements) = 1 /\ Len(doc) = 1
     /\ Len(text_dict) = 1 /\ Len(text_dict[1]) = 1
     /\ Len(replacements[1].oldText) > 0
     /\ In(replacements[1].oldText, text_dict[1][1].text)
     /\ replacements[1].oldText # text_dict[1][1].text
     /\ \E i \in 1..Len(log) : log[i].kind = "made")
    => /\ replacements_made = 1
       /\ normalize_text(PageText(doc[1].lines))
            = normalize_text(Replace(text_dict[1][1].text, replacements[1].oldText,
                                     replacements[1].newText))

(* C2: when the normalized oldText is not empty and equals the normalized  *)
(* text of some line of the page, the match selected is an exactly equal   *)
(* line (or span), a line with score 0, whatever lines precede it.         *)
C2_ExactLineSelected ==
    (/\ Searched
     /\ OldNorm # <<>>
     /\ \E li \in TextLines(Extraction) : LineNorm(Extraction, li) = OldNorm)
    => /\ Selected.found
       /\ SelectedNorm(Extraction, Selected) = OldNorm
       /\ Selected.path \in {"line", "fuzzy"} => Selected.score = 0

(* C3: when the normalized oldText is a strict substring of the normalized *)
(* text of exactly one line L and of no other line, L is the line selected *)
(* (by the containment step: score 1 for a line request).                  *)
C3_ContainingLineSelected ==
    \A L \in 1..(IF Searched THEN Len(Extraction) ELSE 0) :
        (/\ OldNorm # <<>>
         /\ L \in TextLines(Extraction)
         /\ \A li \in TextLines(Extraction) :
               (In(OldNorm, LineNorm(Extraction, li))
                    /\ OldNorm # LineNorm(Extraction, li)) <=> li = L)
        => /\ Selected.found
           /\ Selected.idx = L
           /\ Selected.path \in {"line", "fuzzy"} => Selected.score = 1

\* the target of the request the run is at
Target == target(current_request, doc[current_request.pageNum])

\* a line below the similarity floor and without substring relation
BelowFloor(td, li) ==
    /\ Jaccard10(OldNorm, LineNorm(td, li)) < Union8(OldNorm, LineNorm(td, li))
    /\ ~Substring(OldNorm, LineNorm(td, li))

(* C4: a line whose character-set Jaccard similarity with the normalized   *)
(* oldText is below 0.8 and that has no substring relation with it is      *)
(* never the line selected, for line requests (first loop, fuzzy loop) and  *)
(* for single-token requests (search by position).                         *)
C4_BelowFloorNeverSelected ==
    (Searched /\ impl = "positions" /\ found.lm.found)
    => ~BelowFloor(text_dict, found.lm.idx)

\* the fuzzy loop of a line request passed over a line below the floor and
\* selected a later line
C4_Witness ==
    /\ Searched /\ impl = "positions"
    /\ found.lm.found /\ found.lm.path = "fuzzy"
    /\ \E li \in TextLines(text_dict) :
          li < found.lm.idx /\ BelowFloor(text_dict, li)

(* C5: a line whose Jaccard similarity with the normalized oldText is at   *)
(* least 0.8 is accepted: when the page has such a line, the request finds  *)
(* a match.                                                                *)
C5_SimilarityAtLeastFloorAccepted ==
    (/\ Searched /\ impl = "positions"
     /\ OldNorm # <<>>
     /\ \E li \in TextLines(text_dict) :
           Jaccard10(OldNorm, LineNorm(text_dict, li))
              >= Union8(OldNorm, LineNorm(text_dict, li)))
    => Selected.found

\* the matching step a line satisfies: 0 equal, 1 containment, 2 fuzzy
Step(td, li) ==
    IF LineNorm(td, li) = OldNorm THEN 0
    ELSE IF Substring(OldNorm, LineNorm(td, li)) THEN 1
    ELSE IF ~BelowFloor(td, li) THEN 2
    ELSE 3

(* C6: with an anchor, among the lines that satisfy the same matching step *)
(* as the line selected, the line selected has the smallest distance to    *)
(* the converted anchor, for line requests and single-token requests.      *)
C6_NearestOfSameStepSelected ==
    (/\ Searched /\ impl = "positions"
     /\ current_request.pageWidth > 0 /\ current_request.pageHeight > 0
     /\ found.lm.found)
    => \A li \in TextLines(text_dict) :
          Step(text_dict, li) = Step(text_dict, found.lm.idx)
          => line_distance(Target, BuildLine(text_dict, found.lm.idx))
                <= line_distance(Target, BuildLine(text_dict, li))

(* C6 as amended: a single-token request selects the nearest of the spans  *)
(* equal to oldText, and in the search by position the nearest of the      *)
(* lines that pass its text test; a request with an internal space selects *)
(* the first line in page order that is equal to, contains or is contained *)
(* in oldText (failing that, the first the fuzzy test accepts), whatever   *)
(* the anchor.                                                             *)
C6_NearestForTokensFirstForLines ==
    (Searched /\ impl = "positions")
    => /\ found.sm.found =>
            \A li \in 1..Len(text_dict) : \A si \in 1..Len(text_dict[li]) :
                (/\ HasText(text_dict[li][si])
                 /\ span_text_match(current_request.oldText,
                                    strip(text_dict[li][si].text)))
                => span_distance(Target, found.sm.box)
                      <= span_distance(Target, text_dict[li][si].bbox)
       /\ (found.lm.found /\ found.lm.path = "position") =>
            \A li \in TextLines(text_dict) :
                position_text_match(normalize_text(current_request.oldText),
                                    split_join(BuildLine(text_dict, li).text))
                => line_distance(Target, BuildLine(text_dict, found.lm.idx))
                      <= line_distance(Target, BuildLine(text_dict, li))
       /\ (found.lm.found /\ found.lm.path = "line") =>
            \A li \in TextLines(text_dict) :
                li < found.lm.idx
                => ~LineRelation(OldNorm, LineNorm(text_dict, li))
       /\ (found.lm.found /\ found.lm.path = "fuzzy") =>
            \A li \in TextLines(text_dict) :
                /\ ~LineRelation(OldNorm, LineNorm(text_dict, li))
                /\ li < found.lm.idx
                   => ~FuzzyRelation(normalize_text(current_request.oldText),
                                     normalize_text(BuildLine(text_dict, li).text))

\* two lines pass the text test of a single-token request with an anchor
\* and the second, the nearer one, is selected
C6_Witness ==
    /\ Searched /\ impl = "positions"
    /\ current_request.pageWidth > 0
    /\ found.lm.found /\ found.lm.path = "position" /\ found.lm.idx = 2
    /\ position_text_match(normalize_text(current_request.oldText),
                           split_join(BuildLine(text_dict, 1).text))
    /\ line_distance(Target, BuildLine(text_dict, 2))
          < line_distance(Target, BuildLine(text_dict, 1))

\* the trimmed text has a whitespace character, a space character
HasInternalWhitespace(t) == \E i \in 1..Len(strip(t)) : strip(t)[i] \in Whitespace
HasInternalSpace(t) == \E i \in 1..Len(strip(t)) : strip(t)[i] = " "

(* C7: for a request whose trimmed oldText contains internal whitespace    *)
(* no span-level match is made: every box matched or redacted for it is    *)
(* the box of a line, never that of a span found by the span search.       *)
C7_WhitespaceRequestNeverSpan ==
    impl = "positions" =>
        \A i \in 1..Len(log) :
            (/\ log[i].kind \in {"match", "redact"}
             /\ HasInternalWhitespace(replacements[log[i].req].oldText))
            => log[i].path # "span"

(* C7 as amended: for a request whose trimmed oldText contains an internal *)
(* space character no span-level match is made: every box matched or       *)
(* redacted for it is the box of a line.                                   *)
C7_SpaceRequestNeverSpan ==
    impl = "positions" =>
        \A i \in 1..Len(log) :
            (/\ log[i].kind \in {"match", "redact"}
             /\ HasInternalSpace(replacements[log[i].req].oldText))
            => log[i].path # "span" /\ log[i].span = 0

\* a request with an internal space redacted the box of a line although a
\* span of that line has the text of the request and another box
C7_Witness ==
    /\ impl = "positions"
    /\ \E i \in 1..Len(log) :
          /\ log[i].kind = "redact" /\ log[i].path = "line"
          /\ HasInternalSpace(replacements[log[i].req].oldText)
          /\ log[i].idx \in 1..Len(text_dict)
          /\ \E si \in 1..Len(text_dict[log[i].idx]) :
                /\ span_text_match(replacements[log[i].req].oldText,
                                   strip(text_dict[log[i].idx][si].text))
                /\ text_dict[log[i].idx][si].bbox # log[i].box

(* C8: for a single-token request for which a line matches, the line match *)
(* is the one redacted: every box the request redacts is the box of that   *)
(* line, not the box of a span found by the span search.                   *)
C8_LineMatchRedactedFirst ==
    [][(/\ pc = "insert" /\ impl = "positions"
        /\ ~HasInternalWhitespace(current_request.oldText)
        /\ found.lm.found)
       => \A i \in 1..Len(NewEvents) :
             NewEvents[i].kind = "redact" => NewEvents[i].box = found.lm.box]_vars

(* C8 as amended: for a request without an internal space the span-level   *)
(* match comes first: when a span equals oldText that span is the first    *)
(* box redacted, and the line found by the search by position is redacted  *)
(* only when no span matched or after every insertion at the span failed.  *)
C8_SpanFirstThenLine ==
    [][(/\ pc = "insert" /\ impl = "positions"
        /\ ~HasInternalSpace(current_request.oldText)
        /\ Len(current_request.oldText) > 0)
       => /\ found.sm.found =>
               /\ Len(NewEvents) >= 2
               /\ NewEvents[1].kind = "match" /\ NewEvents[1].path = "span"
               /\ NewEvents[2].kind = "redact" /\ NewEvents[2].path = "span"
               /\ NewEvents[2].box = found.sm.box
               /\ \A i \in 1..Len(NewEvents) :
                     (NewEvents[i].kind = "redact" /\ NewEvents[i].path # "span")
                     => \E j \in 1..(i - 1) :
                           /\ NewEvents[j].kind = "warning"
                           /\ NewEvents[j].outcome = "could_not_insert"
                           /\ NewEvents[j].path = "span"
          /\ (~found.sm.found /\ found.lm.found) =>
               /\ Len(NewEvents) >= 2
               /\ NewEvents[2].kind = "redact" /\ NewEvents[2].path = "position"
               /\ \A i \in 1..Len(NewEvents) : NewEvents[i].path # "span"]_vars

\* a single-token request for which a span and a line with another box
\* matched has redacted the span and inserted there
C8_Witness ==
    /\ impl = "positions" /\ pc = "page"
    /\ found.sm.found /\ found.lm.found /\ found.sm.box # found.lm.box
    /\ Len(log) > 0
    /\ log[Len(log)].kind = "made" /\ log[Len(log)].path = "span"

(* C9: a request whose oldText is empty after trimming is rejected: it     *)
(* matches no span and no line, and nothing is redacted or inserted for    *)
(* it.                                                                     *)
C9_EmptyOldTextRejected ==
    \A i \in 1..Len(log) :
        strip(replacements[log[i].req].oldText) = <<>>
        => log[i].kind \in {"skip", "warning"}

\* no line of the request's page, as the page is now, is equal to the
\* request, contains it, is contained in it or reaches the similarity floor
NoCandidateOnPage ==
    \A li \in TextLines(doc[current_request.pageNum].lines) :
        BelowFloor(doc[current_request.pageNum].lines, li)

(* C10: in a run whose requests all have a non-empty oldText, a request    *)
(* whose oldText matches nothing on its page leaves every page unchanged   *)
(* and replacements_made as it was, produces only a warning, and the run   *)
(* goes on: the next request or page, then the save of the document and    *)
(* the result True.                                                        *)
C10_UnmatchedRequestChangesNothing ==
    [][/\ (/\ Searched /\ NoCandidateOnPage
           /\ \A k \in 1..Len(replacements) :
                 normalize_text(replacements[k].oldText) # <<>>)
          => /\ doc' = doc
             /\ replacements_made' = replacements_made
             /\ \A i \in 1..Len(NewEvents) : NewEvents[i].kind = "warning"
             /\ pc' \in {"request", "page", "save"}
       /\ pc = "save" => (pc' = "done" /\ result' = "True" /\ saved' = <<doc>>)]_vars

-----------------------------------------------------------------------------
(* Runs with requests on two pages in every order: documents of two pages, *)
(* lists of up to MaxOrder requests, each for "ab" (on both pages) or "e"  *)
(* (on neither), on page 1 or 2.                                           *)

MaxOrder == 3

OrderDocs == {d \in RunDocs : Len(d) = 2}

OrderRequests ==
    {RequestOf(old_text, <<"d">>, page_num, NoAnchor) :
        old_text \in {<<"a", "b">>, <<"e">>}, page_num \in {1, 2}}

InitOrder ==
    \E d \in OrderDocs, reqs \in SeqsUpTo(OrderRequests, MaxOrder),
       which \in {"positions", "hybrid"} :
        InitRun(d, reqs, TRUE, which)

SpecOrder == InitOrder /\ [][Next]_vars

\* the events of the log that belong to the processing of a request (the
\* warnings for invalid page numbers are written while grouping)
Processing(e) == e.outcome # "invalid_page"

\* the index of the first request of the list for the page of request k
FirstOfPage(k) ==
    SetMin({i \in 1..Len(replacements) :
               replacements[i].pageNum = replacements[k].pageNum})

(* C11: the requests are processed in list order: no event of a request    *)
(* comes after an event of a later request of the list, also when the      *)
(* requests are for different pages in interleaved order.                  *)
C11_ListOrder ==
    \A a, b \in 1..Len(log) :
        (a < b /\ Processing(log[a]) /\ Processing(log[b]))
        => log[a].req <= log[b].req

(* C11 as amended: pdf_replace_text_hybrid.py processes the requests in    *)
(* list order; pdf_replace_text.py processes them page by page, the pages  *)
(* in the order of their first request in the list and the requests of one *)
(* page in list order.                                                     *)
C11_PageGroupsInListOrder ==
    \A a, b \in 1..Len(log) :
        (a < b /\ Processing(log[a]) /\ Processing(log[b]))
        => IF impl = "hybrid"
              \/ replacements[log[a].req].pageNum = replacements[log[b].req].pageNum
           THEN log[a].req <= log[b].req
           ELSE FirstOfPage(log[a].req) < FirstOfPage(log[b].req)

\* pdf_replace_text.py processed the third request of the list before the
\* second, which is for another page
C11_Witness ==
    /\ impl = "positions"
    /\ \E a, b \in 1..Len(log) :
          /\ a < b /\ log[a].req = 3 /\ log[b].req = 2
          /\ Processing(log[a]) /\ Processing(log[b])

-----------------------------------------------------------------------------
\* the spans a match selected, as pairs <<line, span>> of the extraction
MatchedSpans(td, m) ==
    IF ~m.found THEN {}
    ELSE IF m.span > 0 THEN {<<m.idx, m.span>>}
    ELSE {<<m.idx, k>> : k \in {k \in 1..Len(td[m.idx]) : HasText(td[m.idx][k])}}

\* a span with this text and box is on the page now
OnPage(lines, s) == \E li \in 1..Len(lines) : \E k \in 1..Len(lines[li]) : lines[li][k] = s

(* C12: every request is matched against spans extracted from its page as  *)
(* the page is when the request is reached, after the redactions and       *)
(* insertions of the earlier requests: the extraction is the content of    *)
(* the page, and the spans a request matches are on the page, never text   *)
(* an earlier request erased.                                              *)
C12_MatchedAgainstFreshExtraction ==
    Searched =>
        /\ Extraction = doc[current_request.pageNum].lines
        /\ \A p \in MatchedSpans(Extraction, Selected) :
              OnPage(doc[current_request.pageNum].lines, Extraction[p[1]][p[2]])

-----------------------------------------------------------------------------
\* the number of events of a kind the log has for request k
EventsOf(k, kind) ==
    Cardinality({i \in 1..Len(log) : log[i].req = k /\ log[i].kind = kind})

(* C13: no request is retried: in every run each request is matched at     *)
(* most once and redacted at most once, and has at most four insertion     *)
(* attempts; a request whose insertions all failed is not matched,         *)
(* redacted or inserted again through another matching path.               *)
C13_NoRetry ==
    \A k \in 1..Len(replacements) :
        /\ EventsOf(k, "match") <= 1
        /\ EventsOf(k, "redact") <= 1
        /\ EventsOf(k, "insert") <= 4

-----------------------------------------------------------------------------
\* the terminal states the log records for request k
TerminalStates(k) ==
    {st \in {"INSERTED", "UNMATCHED", "INSERT_FAILED"} :
        \E i \in 1..Len(log) :
            /\ log[i].req = k
            /\ \/ st = "INSERTED" /\ log[i].kind = "made"
               \/ st = "UNMATCHED" /\ log[i].outcome = "not_found"
               \/ st = "INSERT_FAILED" /\ log[i].outcome = "could_not_insert"}

(* C14: when pdf_replace_text.py comes to save the document, every request *)
(* of the list with a valid pageNum and a non-empty oldText has reached    *)
(* exactly one of the terminal states INSERTED, UNMATCHED, INSERT_FAILED,  *)
(* whatever became of the earlier requests: none is left unprocessed       *)
(* after a successful replacement on its page.                             *)
C14_EveryRequestTerminal ==
    (impl = "positions" /\ pc = "save") =>
        \A k \in 1..Len(replacements) :
            (ValidPage(replacements[k], doc) /\ Len(replacements[k].oldText) > 0)
            => Cardinality(TerminalStates(k)) = 1

-----------------------------------------------------------------------------
(* The insertion cascade as the log shows it.  The events of one request   *)
(* are consecutive, and an insertion attempt is always followed by an      *)
(* event of the same request: the next attempt, "made" or the warning.     *)

\* the step number of an insertion strategy
StepOf(path) ==
    CASE path = "textbox" -> 1 [] path = "baseline" -> 2
      [] path = "helv" -> 3 [] path = "default" -> 4 [] OTHER -> 0

Attempt(i) == i \in 1..Len(log) /\ log[i].kind = "insert"
AttemptOf(i, path) == Attempt(i) /\ log[i].path = path
Raised(i) == Attempt(i) /\ log[i].outcome = "raise"
NotFit(i) == AttemptOf(i, "textbox") /\ log[i].outcome \in {"short", "neg"}
Succeeded(i) == Attempt(i) /\ log[i].outcome \in {"fit", "ok"}

(* C15: after a redaction the strategies are attempted in the order        *)
(* textbox (1), baseline with the original font (2), baseline with helv    *)
(* (3), baseline with the default font (4); step k+1 is attempted exactly  *)
(* when step k raised: after a raise of step k the next event is the       *)
(* attempt of step k+1 (after step 1, step 2), a step k+1 directly follows *)
(* a raise of step k, and no attempt follows a success.                    *)
C15_NextStepExactlyWhenRaised ==
    \A i \in 1..Len(log) :
        /\ (Raised(i) /\ StepOf(log[i].path) < 4)
           => (Attempt(i + 1) /\ StepOf(log[i + 1].path) = StepOf(log[i].path) + 1)
        /\ (Attempt(i) /\ StepOf(log[i].path) > 1 /\ log[i - 1].kind # "redact")
           => (Raised(i - 1) /\ StepOf(log[i - 1].path) = StepOf(log[i].path) - 1)
        /\ Succeeded(i) => ~Attempt(i + 1)

(* C15 as amended: the cascade after a redaction starts with the textbox   *)
(* (with the baseline and the original font in the last resort); the       *)
(* baseline with the original font is attempted exactly when the textbox   *)
(* did not raise and did not fully fit; helv exactly when the textbox or   *)
(* the baseline with the original font raised; the default font exactly    *)
(* when helv raised; nothing is attempted after a success.                 *)
C15_CascadeOrder ==
    \A i \in 1..Len(log) :
        /\ log[i].kind = "redact"
           => (AttemptOf(i + 1, "textbox") \/ AttemptOf(i + 1, "baseline"))
        /\ AttemptOf(i, "textbox") => log[i - 1].kind = "redact"
        /\ (AttemptOf(i, "textbox") /\ Raised(i)) => AttemptOf(i + 1, "helv")
        /\ NotFit(i) => AttemptOf(i + 1, "baseline")
        /\ (AttemptOf(i, "baseline") /\ Raised(i)) => AttemptOf(i + 1, "helv")
        /\ (AttemptOf(i, "helv") /\ Raised(i)) => AttemptOf(i + 1, "default")
        /\ AttemptOf(i, "baseline") => (NotFit(i - 1) \/ log[i - 1].kind = "redact")
        /\ AttemptOf(i, "helv")
           => (Raised(i - 1) /\ StepOf(log[i - 1].path) \in {1, 2})
        /\ AttemptOf(i, "default") => (Raised(i - 1) /\ log[i - 1].path = "helv")
        /\ Succeeded(i) => (log[i + 1].kind = "made" /\ ~Attempt(i + 2))

\* the textbox raised and the attempt with helv followed, and it raised and
\* the attempt with the default font followed
C15_Witness ==
    \E i \in 1..Len(log) :
        /\ AttemptOf(i, "textbox") /\ Raised(i)
        /\ AttemptOf(i + 1, "helv") /\ Raised(i + 1)
        /\ AttemptOf(i + 2, "default") /\ Succeeded(i + 2)

(* C16: when insert_textbox does not raise but reports that the new text   *)
(* did not fully fit (a negative result, or one smaller than the length of *)
(* newText), the next event is the baseline insertion of the same request  *)
(* with the original font, whatever part of the text was placed; when that *)
(* insertion raises, helv is attempted next, and when helv raises, the     *)
(* default font.                                                           *)
C16_NotFitThenBaseline ==
    \A i \in 1..Len(log) :
        NotFit(i) =>
            /\ AttemptOf(i + 1, "baseline") /\ log[i + 1].req = log[i].req
            /\ Raised(i + 1)
               => /\ AttemptOf(i + 2, "helv") /\ log[i + 2].req = log[i].req
                  /\ Raised(i + 2)
                     => (AttemptOf(i + 3, "default") /\ log[i + 3].req = log[i].req)

\* a textbox that placed part of the text, then the baseline insertion and
\* helv raising, then the default font
C16_Witness ==
    \E i \in 1..Len(log) :
        /\ AttemptOf(i, "textbox") /\ log[i].outcome = "short"
        /\ AttemptOf(i + 1, "baseline") /\ Raised(i + 1)
        /\ AttemptOf(i + 2, "helv") /\ Raised(i + 2)
        /\ AttemptOf(i + 3, "default")

-----------------------------------------------------------------------------
\* the step processes a request and every strategy of a cascade raises
CouldNotInsert ==
    \E i \in 1..Len(NewEvents) : NewEvents[i].outcome = "could_not_insert"

(* C17: when every insertion strategy raises for a request, the outcome is *)
(* a logged "could not insert" and nothing more happens for the request:   *)
(* replacements_made is not incremented for it, it is not matched,         *)
(* redacted or inserted again after the warning, the run goes on with the  *)
(* next request or page, and the run ends with the document saved and the  *)
(* result True.                                                            *)
C17_CouldNotInsertIsSkipped ==
    [][/\ CouldNotInsert
          => /\ replacements_made' = replacements_made
             /\ \A i, j \in 1..Len(NewEvents) :
                   (i < j /\ NewEvents[i].outcome = "could_not_insert")
                   => NewEvents[j].kind = "warning"
             /\ pc' \in {"request", "page", "save"}
       /\ pc = "save" => (pc' = "done" /\ result' = "True" /\ saved' = <<doc>>)]_vars

-----------------------------------------------------------------------------
(* Runs of pdf_replace_text.py on the anchor conversion: one page of 20 x  *)
(* 40 or 612 x 792 points, one request whose anchor is given in a viewport *)
(* of twice the page, of the size of the page, or with pageWidth or        *)
(* pageHeight (or both) 0.                                                 *)

ConvertPages ==
    {[PageOf(rows) EXCEPT !.width = size[1], !.height = size[2]] :
        rows \in {<<<<<<"a", "b">>>>>>, <<<<<<"c">>>>, <<<<"a", "b">>>>>>},
        size \in {<<20, 40>>, <<612, 792>>}}

ConvertAnchors(page) ==
    {<<x, y, pw, ph>> :
        x \in {10, 100}, y \in {28, 200},
        pw \in {0, page.width, 2 * page.width},
        ph \in {0, page.height, 2 * page.height}}

InitConvert ==
    \E page \in ConvertPages, old_text \in {<<"a", "b">>, <<"e">>} :
        \E anchor \in ConvertAnchors(page) :
            InitRun(<<page>>, <<RequestOf(old_text, <<"d">>, 1, anchor)>>, TRUE,
                    "positions")

NextConvert ==
    \/ Start
    \/ BeginPage
    \/ Search
    \/ Insert(RunEnvs)
    \/ Save

SpecConvert == InitConvert /\ [][NextConvert]_vars

\* the fraction f is the number n / d (d > 0)
FracIs(f, n, d) == f[1] * d = n * f[2]

\* a request of pdf_replace_text.py whose anchor was converted for its search
Converted == Searched /\ impl = "positions"

\* target is x * (pdf width / pageWidth), y * (pdf height / pageHeight)
Linear(r, page, t) ==
    /\ t.x[1] * r.pageWidth = r.x * page.width * t.x[2]
    /\ t.y[1] * r.pageHeight = r.y * page.height * t.y[2]

\* the anchor (100, 200) in a viewport of 1224 x 1584 on a page of 612 x 792
\* becomes (50, 100)
Example(r, page, t) ==
    (/\ page.width = 612 /\ page.height = 792
     /\ r.pageWidth = 1224 /\ r.pageHeight = 1584 /\ r.x = 100 /\ r.y = 200)
    => (FracIs(t.x, 50, 1) /\ FracIs(t.y, 100, 1))

(* C18: the anchor of every request is converted by the same formula,      *)
(* linear and independent per axis: target_x * pageWidth = x * pdf page    *)
(* width and target_y * pageHeight = y * pdf page height, also when        *)
(* pageWidth or pageHeight is 0; (100, 200) in a viewport of 1224 x 1584   *)
(* on a page of 612 x 792 becomes (50, 100).                               *)
C18_LinearForEveryAnchor ==
    Converted =>
        /\ Linear(current_request, doc[current_request.pageNum], Target)
        /\ Example(current_request, doc[current_request.pageNum], Target)

(* C18 as amended: the conversion is linear per axis when pageWidth > 0    *)
(* and pageHeight > 0, with the example as stated; when pageWidth or       *)
(* pageHeight is 0 the fallback is applied on both axes: target_x =        *)
(* x / 2.0 * 0.75 and target_y = y / 2.0 * 0.75.                           *)
C18_LinearOrFallback ==
    Converted =>
        IF current_request.pageWidth > 0 /\ current_request.pageHeight > 0
        THEN /\ Linear(current_request, doc[current_request.pageNum], Target)
             /\ Example(current_request, doc[current_request.pageNum], Target)
        ELSE /\ FracIs(Target.x, 3 * current_request.x, 8)
             /\ FracIs(Target.y, 3 * current_request.y, 8)

\* the anchor of the example was converted to (50, 100) and the span search
\* with that target found a span
C18_Witness ==
    /\ Converted
    /\ doc[1].width = 612 /\ doc[1].height = 792
    /\ current_request.pageWidth = 1224 /\ current_request.pageHeight = 1584
    /\ current_request.x = 100 /\ current_request.y = 200
    /\ Target = [x |-> <<50, 1>>, y |-> <<100, 1>>]
    /\ found.sm.found

-----------------------------------------------------------------------------
(* Runs on the boxes of spans: one page with one PyMuPDF line of up to      *)
(* MaxSpans spans, the spans "ab" and "c" with boxes on the page, left of   *)
(* and above its origin (negative coordinates, or ending at 0), "c" also    *)
(* with a box without width or without height, and a span of one blank;    *)
(* one request, for the span "ab" or for the line "ab c".                   *)

MaxSpans == 2

BoxSpans ==
    {[text |-> <<"a", "b">>, bbox |-> b] :
        b \in {<<2, 2, 8, 6>>, <<-8, -6, -2, -2>>, <<-6, -4, 0, 0>>}}
    \cup {[text |-> <<"c">>, bbox |-> b] :
        b \in {<<9, 2, 15, 6>>, <<-15, -6, -9, -2>>, <<9, 2, 9, 6>>, <<9, 4, 15, 4>>}}
    \cup {[text |-> <<" ">>, bbox |-> <<16, 2, 22, 6>>]}

BoxPages ==
    {[width |-> 20, height |-> 40, lines |-> <<spans>>] :
        spans \in SeqsUpTo(BoxSpans, MaxSpans) \ {<<>>}}

InitBoxes ==
    \E page \in BoxPages, old_text \in {<<"a", "b">>, <<"a", "b", " ", "c">>},
       which \in {"positions", "hybrid"} :
        InitRun(<<page>>, <<RequestOf(old_text, <<"d">>, 1, NoAnchor)>>, TRUE, which)

SpecBoxes == InitBoxes /\ [][Next]_vars

\* the union of the boxes of the spans of a non-empty sequence
UnionBox(spans) ==
    <<SetMin({spans[i].bbox[1] : i \in 1..Len(spans)}),
      SetMin({spans[i].bbox[2] : i \in 1..Len(spans)}),
      SetMax({spans[i].bbox[3] : i \in 1..Len(spans)}),
      SetMax({spans[i].bbox[4] : i \in 1..Len(spans)})>>

(* C19: every line the line grouping builds has at least one span, and the *)
(* box of a matched line, which is the box redacted for it, is the union   *)
(* of the boxes of its member spans: the least x0, the least y0, the       *)
(* greatest x1 and the greatest y1, also for negative or zero coordinates. *)
C19_LineBoxIsUnionOfSpans ==
    Searched =>
        /\ \A k \in 1..Len(BuildLines(Extraction)) :
              Len(BuildLines(Extraction)[k].spans) >= 1
        /\ found.lm.found
           => found.lm.box = UnionBox(BuildLine(Extraction, found.lm.idx).spans)

\* a span that may take part in matching: it has text after trimming and a
\* box with width and height
Degenerate(bbox) == bbox[3] <= bbox[1] \/ bbox[4] <= bbox[2]
Proper(s) == HasText(s) /\ ~Degenerate(s.bbox)

(* C20: spans with empty text after trimming and spans with a degenerate   *)
(* box (x1 <= x0 or y1 <= y0) are excluded from matching: the span a span  *)
(* match selects is none of them, and none of them is a member of a built  *)
(* line, so none contributes to the text or to the box of a line.          *)
C20_OnlyProperSpansMatched ==
    Searched =>
        /\ found.sm.found => Proper(Extraction[found.sm.idx][found.sm.span])
        /\ \A k \in 1..Len(BuildLines(Extraction)) :
              \A i \in 1..Len(BuildLines(Extraction)[k].spans) :
                  Proper(BuildLines(Extraction)[k].spans[i])

-----------------------------------------------------------------------------
(* replace_text_in_pdf of pdf_replace_text.py.  args is                    *)
(*   [old_text, new_text, case_sensitive, replace_all];                    *)
(* cursor is the page being processed.  The events of an occurrence have   *)
(* req = the page number and the place of the span in idx and span.        *)

\* search_old in search_text
in_pdf_match(a, span_text) ==
    IF a.case_sensitive THEN In(a.old_text, span_text)
    ELSE In(lower(a.old_text), lower(span_text))

\* occurrences: the matching spans of the page in reading order, only the
\* first when replace_all is false
occurrences(a, td) ==
    LET all == SelectSeq(AllSpans(td), LAMBDA e : in_pdf_match(a, e.span.text))
    IN  IF a.replace_all \/ Len(all) = 0 THEN all ELSE <<all[1]>>

\* for occ in occurrences: redact the box grown by 1, insert_text with the
\* font of the span, on an error without fontname, on an error a warning
RECURSIVE in_pdf_replace(_, _, _, _, _)
in_pdf_replace(page_num, occs, env, calls, page_height) ==
    IF Len(occs) = 0 THEN <<>>
    ELSE LET b    == occs[1].span.bbox
             m    == [idx |-> occs[1].li, span |-> occs[1].si, score |-> 0]
             rect == <<b[1] - 1, b[2] - 1, b[3] + 1, b[4] + 1>>
             at   == baseline_rect(b[1], b[2], b, page_height)
             head == <<Ev(page_num, "match", "in_pdf", "", m, b),
                       Ev(page_num, "redact", "in_pdf", "", m, rect)>>
             made == <<Ev(page_num, "made", "in_pdf", "", m, at)>>
         IN  IF ~Raises(env, calls + 1)
             THEN head \o <<Ev(page_num, "insert", "baseline", "ok", m, at)>> \o made
                  \o in_pdf_replace(page_num, Tail(occs), env, calls + 1, page_height)
             ELSE IF ~Raises(env, calls + 2)
             THEN head \o <<Ev(page_num, "insert", "baseline", "raise", m, at),
                            Ev(page_num, "insert", "default", "ok", m, at)>> \o made
                  \o in_pdf_replace(page_num, Tail(occs), env, calls + 2, page_height)
             ELSE head \o <<Ev(page_num, "insert", "baseline", "raise", m, at),
                            Ev(page_num, "insert", "default", "raise", m, at),
                            Ev(page_num, "warning", "in_pdf", "could_not_insert", m, at)>>
                  \o in_pdf_replace(page_num, Tail(occs), env, calls + 2, page_height)

\* the checks before the document is opened, fitz.open
StartInPdf ==
    /\ pc = "start"
    /\ impl = "in_pdf"
    /\ IF missing_file(pdf_exists) \/ Len(strip(args.old_text)) = 0
       THEN pc' = "done" /\ result' = "False" /\ UNCHANGED cursor
       ELSE /\ pc' = IF Len(doc) = 0 THEN "save" ELSE "scan"
            /\ cursor' = 1
            /\ UNCHANGED result
    /\ UNCHANGED <<impl, pdf_exists, replacements, doc, replacements_by_page, group,
                   text_dict, found, replacements_made, log, saved>>
    /\ UNCHANGED process_vars

\* one pass of  for page_num in range(len(doc))
PageInPdf(envs) ==
    /\ pc = "scan"
    /\ impl = "in_pdf"
    /\ \E env \in envs :
          LET events == in_pdf_replace(cursor, occurrences(args, doc[cursor].lines),
                                       env, 0, doc[cursor].height)
          IN  /\ doc' = [doc EXCEPT ![cursor].lines =
                            apply_events(@, events, args.new_text)]
              /\ log' = log \o events
              /\ replacements_made' = replacements_made + made_in(events)
    /\ cursor' = cursor + 1
    /\ pc' = IF cursor = Len(doc) THEN "save" ELSE "scan"
    /\ UNCHANGED <<impl, pdf_exists, replacements, replacements_by_page, group,
                   text_dict, found, result, saved>>
    /\ UNCHANGED process_vars

-----------------------------------------------------------------------------
(* The command line of the replace-text scripts.  argv[i + 1] is           *)
(* sys.argv[i].  An argument is its text (str) and the JSON document the   *)
(* text spells (json): not JSON at all, an array of objects, or one        *)
(* object; the scalars of JSON are left out.                               *)

Arg(i) == argv[i + 1]

DashJson == <<"-", "-", "j", "s", "o", "n">>
TrueText == <<"t", "r", "u", "e">>
FalseText == <<"f", "a", "l", "s", "e">>

\* json.loads: JSONDecodeError on a text that is not JSON, else the value
json_loads(a) ==
    IF a.json.syntax = "invalid"
    THEN [ok |-> FALSE, is_list |-> FALSE, value |-> <<>>]
    ELSE IF a.json.syntax = "array"
    THEN [ok |-> TRUE, is_list |-> TRUE, value |-> a.json.items]
    ELSE [ok |-> TRUE, is_list |-> FALSE, value |-> a.json.items[1]]

\* sys.argv[i].lower() == 'true'
is_true(a) == lower(a.str) = TrueText

\* the function the JSON mode of a script calls
entry_point(s) ==
    CASE s = "pdf_replace_text.py" -> "positions"
      [] s = "pdf_replace_text_hybrid.py" -> "hybrid"
      [] s = "pdf_replace_text_redactor.py" -> "redactor"

\* sys.exit(code) before a function was called
exit_now(code) ==
    /\ exit_code' = code
    /\ pc' = "exited"
    /\ UNCHANGED <<impl, replacements, args>>

\* if __name__ == "__main__": the parsing of the command line
Main ==
    /\ pc = "main"
    /\ IF Len(argv) < 3
       THEN exit_now(1)
       ELSE IF Len(argv) > 4 /\ Arg(3).str = DashJson
       THEN LET j == json_loads(Arg(4))
            IN  IF ~j.ok
                THEN exit_now(1)
                ELSE /\ replacements' = IF j.is_list THEN j.value ELSE <<j.value>>
                     /\ impl' = entry_point(script)
                     /\ pc' = "start"
                     /\ UNCHANGED <<args, exit_code>>
       ELSE IF script # "pdf_replace_text.py"
       THEN exit_now(1)
       ELSE IF Len(argv) < 4
       THEN exit_now(1)
       ELSE /\ args' = [old_text |-> Arg(3).str,
                        new_text |-> IF Len(argv) > 4 THEN Arg(4).str ELSE <<>>,
                        case_sensitive |-> IF Len(argv) > 5 THEN is_true(Arg(5))
                                           ELSE FALSE,
                        replace_all |-> IF Len(argv) > 6 THEN is_true(Arg(6))
                                        ELSE TRUE]
            /\ impl' = "in_pdf"
            /\ pc' = "start"
            /\ UNCHANGED <<replacements, exit_code>>
    /\ UNCHANGED <<script, argv, world, compressed_size>>
    /\ UNCHANGED <<pdf_exists, doc, replacements_by_page, group, cursor, text_dict,
                   found, replacements_made, log, result, saved>>

\* an exit status that does not look at the result
exit_status_zero(success) == 0

\* 0 if success else 1
exit_status(success) == IF success THEN 0 ELSE 1

\* sys.exit(0 if success else 1)
Exit ==
    /\ pc = "done"
    /\ script # "none"
    /\ exit_code' = exit_status(result = "True")
    /\ pc' = "exited"
    /\ UNCHANGED <<script, argv, args, world, compressed_size>>
    /\ UNCHANGED <<impl, pdf_exists, replacements, doc, replacements_by_page, group,
                   cursor, text_dict, found, replacements_made, log, result, saved>>

-----------------------------------------------------------------------------
(* replace_text_at_positions of pdf_replace_text_redactor.py.  saved is    *)
(* the file at the output path: <<>> when there is none, else its content; *)
(* world.output_before is the file there when the process started and      *)
(* world.input the document in the input file.                             *)

\* the content of a file opened with 'wb' and not written yet
EmptyFile == <<>>

\* the requests whose oldText is not empty after .strip(), stripped
content_filters(reqs) ==
    LET kept == SelectSeq(reqs, LAMBDA r : Len(strip(r.oldText)) > 0)
    IN  [i \in 1..Len(kept) |->
            [pattern |-> strip(kept[i].oldText), repl |-> strip(kept[i].newText)]]

\* the run of whitespace of t from position i ends before run_end(t, i)
RECURSIVE run_end(_, _)
run_end(t, i) ==
    IF i <= Len(t) /\ t[i] \in Whitespace THEN run_end(t, i + 1) ELSE i

\* re.compile(flexible_pattern, re.IGNORECASE) matched at position i of t:
\* the position after the match, 0 when there is none.  A space of the
\* pattern is \s* (greedy), every other character stands for itself.
RECURSIVE re_end(_, _, _)
RECURSIVE re_space(_, _, _, _)
re_end(p, t, i) ==
    IF Len(p) = 0 THEN i
    ELSE IF p[1] = " " THEN re_space(Tail(p), t, i, run_end(t, i))
    ELSE IF i <= Len(t) /\ LowerChar(t[i]) = LowerChar(p[1])
    THEN re_end(Tail(p), t, i + 1)
    ELSE 0

re_space(rest, t, i, k) ==
    IF k < i THEN 0
    ELSE LET e == re_end(rest, t, k)
         IN  IF e # 0 THEN e ELSE re_space(rest, t, i, k - 1)

\* pattern.sub(replacement_func, t) from position i on
RECURSIVE re_sub(_, _, _, _)
re_sub(p, repl, t, i) ==
    IF i > Len(t) THEN <<>>
    ELSE LET e == re_end(p, t, i)
         IN  IF e # 0 THEN repl \o re_sub(p, repl, t, e)
             ELSE <<t[i]>> \o re_sub(p, repl, t, i + 1)

\* the filters applied one after the other to a text
RECURSIVE filter_text(_, _)
filter_text(filters, t) ==
    IF Len(filters) = 0 THEN t
    ELSE filter_text(Tail(filters), re_sub(filters[1].pattern, filters[1].repl, t, 1))

\* pdf_redactor.redactor(options): every text of every page filtered
redactor(filters, d) ==
    [p \in 1..Len(d) |->
        [d[p] EXCEPT !.lines =
            [li \in 1..Len(d[p].lines) |->
                [si \in 1..Len(d[p].lines[li]) |->
                    [d[p].lines[li][si] EXCEPT !.text = filter_text(filters, @)]]]]]

\* the checks, the two open() calls, the filters
StartRedactor ==
    /\ pc = "start"
    /\ impl = "redactor"
    /\ IF missing_file(pdf_exists) \/ Len(replacements) = 0
       THEN pc' = "done" /\ result' = "False" /\ UNCHANGED saved
       ELSE /\ saved' = <<EmptyFile>>
            /\ IF Len(content_filters(replacements)) = 0
               THEN pc' = "done" /\ result' = "False"
               ELSE pc' = "redact" /\ UNCHANGED result
    /\ UNCHANGED <<impl, pdf_exists, replacements, doc, replacements_by_page, group,
                   cursor, text_dict, found, replacements_made, log>>
    /\ UNCHANGED process_vars

\* pdf_redactor.redactor(options) writes the output or raises
Redact ==
    /\ pc = "redact"
    /\ impl = "redactor"
    /\ \E raises \in BOOLEAN :
          IF raises
          THEN result' = "False" /\ UNCHANGED saved
          ELSE /\ saved' = <<redactor(content_filters(replacements), doc)>>
               /\ result' = "True"
    /\ pc' = "done"
    /\ UNCHANGED <<impl, pdf_exists, replacements, doc, replacements_by_page, group,
                   cursor, text_dict, found, replacements_made, log>>
    /\ UNCHANGED process_vars

-----------------------------------------------------------------------------
(* The runs of the three replace-text scripts from their command line.     *)

NotJson == [syntax |-> "invalid", items |-> <<>>]
Word(t) == [str |-> t, json |-> NotJson]
JsonArray(items) == [str |-> <<"[", "]">>, json |-> [syntax |-> "array", items |-> items]]
JsonObject(item) == [str |-> <<"{", "}">>, json |-> [syntax |-> "object", items |-> <<item>>]]

CliRequests ==
    {RequestOf(<<"a", "b">>, <<"d">>, 1, NoAnchor),
     RequestOf(<<"a", "b">>, <<"d">>, 2, NoAnchor),
     RequestOf(<<"a", "b">>, <<"d">>, 0, NoAnchor),
     RequestOf(<<"a", "b">>, <<"d">>, -1, NoAnchor),
     RequestOf(<<"a", "b">>, <<"d">>, 3, NoAnchor),
     RequestOf(<<" ">>, <<"d">>, 1, NoAnchor)}

JsonArgs ==
    {Word(<<"{">>)}
    \cup {JsonArray(reqs) : reqs \in SeqsUpTo(CliRequests, MaxReqs)}
    \cup {JsonObject(r) : r \in CliRequests}

PathIn == Word(<<"i">>)
PathOut == Word(<<"o">>)

CliOldTexts == {<<"a", "b">>, <<"A">>, <<" ">>, DashJson}

\* the command lines after the name of the script
CommandLines ==
    {<<>>, <<PathIn>>}
    \cup {<<PathIn, PathOut>> \o rest :
            rest \in SeqsUpTo({Word(DashJson)}, 1)
               \cup {<<Word(old)>> : old \in CliOldTexts}
               \cup {<<Word(old), Word(<<"d">>)>> : old \in CliOldTexts}
               \cup {<<Word(<<"a", "b">>), Word(<<"d">>), Word(cs)>> :
                       cs \in {TrueText, FalseText}}
               \cup {<<Word(<<"A">>), Word(<<"d">>), Word(cs), Word(ra)>> :
                       cs \in {TrueText, FalseText}, ra \in {TrueText, FalseText}}
               \cup {<<Word(DashJson), j>> : j \in JsonArgs}}

Scripts ==
    {"pdf_replace_text.py", "pdf_replace_text_hybrid.py",
     "pdf_replace_text_redactor.py"}

CliEnvs ==
    {[tb |-> <<"fit", "fit">>, all |-> FALSE, n |-> 0],
     [tb |-> <<"raise", "raise">>, all |-> TRUE, n |-> 0]}

InitCli ==
    \E s \in Scripts, line \in CommandLines, d \in RunDocs, exists \in BOOLEAN :
      \E before \in {<<>>, <<d>>} :
        /\ script = s
        /\ argv = <<Word(<<"s">>)>> \o line
        /\ impl = "main"
        /\ pc = "main"
        /\ pdf_exists = exists
        /\ doc = d
        /\ saved = before
        /\ world = [output_before |-> before, input |-> d]
        /\ replacements = <<>>
        /\ args = NoArgs
        /\ exit_code = -1
        /\ replacements_by_page = <<>>
        /\ group = 0
        /\ cursor = 0
        /\ text_dict = <<>>
        /\ found = NoMatches
        /\ replacements_made = 0
        /\ log = <<>>
        /\ result = "none"
        /\ compressed_size = 0

NextCli ==
    \/ Main
    \/ Start
    \/ BeginPage
    \/ Search
    \/ Insert(CliEnvs)
    \/ SearchHybrid
    \/ InsertHybrid(CliEnvs)
    \/ StartInPdf
    \/ PageInPdf(CliEnvs)
    \/ StartRedactor
    \/ Redact
    \/ Save
    \/ Exit

SpecCli == InitCli /\ [][NextCli]_vars

-----------------------------------------------------------------------------
(* C21: the exit status of pdf_replace_text.py.                            *)

JsonMode == Len(argv) > 4 /\ Arg(3).str = DashJson
Exited == pc = "exited"

\* C21: pdf_replace_text.py exits 0 exactly when the function it called
\* returned True and 1 otherwise: with fewer than 3 arguments, with no
\* old_text in plain mode, with a text after --json that is not JSON, and
\* when the function returned False.  One JSON object is processed as the
\* list of that object.  A run of an existing input in which nothing was
\* replaced still saves the document and exits 0.
C21_ExitStatus ==
    script = "pdf_replace_text.py" =>
        /\ Exited => /\ exit_code \in {0, 1}
                     /\ exit_code = 0 <=> result = "True"
        /\ Exited /\ Len(argv) < 3 => exit_code = 1 /\ result = "none"
        /\ Exited /\ Len(argv) = 3 => exit_code = 1 /\ result = "none"
        /\ Exited /\ JsonMode /\ Arg(4).json.syntax = "invalid" =>
              exit_code = 1 /\ result = "none"
        /\ Exited /\ result = "False" => exit_code = 1
        /\ ~Exited => exit_code = -1
        /\ JsonMode /\ Arg(4).json.syntax = "object" /\ pc # "main" =>
              replacements = Arg(4).json.items /\ Len(replacements) = 1
        /\ Exited /\ result = "True" /\ replacements_made = 0 =>
              exit_code = 0 /\ saved = <<doc>>
        /\ Exited /\ pdf_exists /\ impl = "positions" /\ Len(replacements) > 0 =>
              exit_code = 0 /\ saved = <<doc>>
        /\ Exited /\ pdf_exists /\ impl = "in_pdf" /\ Len(strip(args.old_text)) > 0 =>
              exit_code = 0 /\ saved = <<doc>>

\* one JSON object, nothing replaced, the document saved, exit status 0
C21_Witness ==
    /\ script = "pdf_replace_text.py"
    /\ Exited
    /\ JsonMode
    /\ Arg(4).json.syntax = "object"
    /\ replacements_made = 0
    /\ saved = <<doc>>
    /\ exit_code = 0

-----------------------------------------------------------------------------
(* C22: a missing input file.                                              *)

\* the function of the script was called and has returned
Returned == pc \in {"done", "exited"} /\ impl # "main"

\* C22: when the input file does not exist, each of replace_text_in_pdf,
\* replace_text_at_positions of pdf_replace_text.py, of the hybrid script
\* and of the redactor script returns False without opening a document and
\* without creating, truncating or writing the file at the output path, and
\* the process exits with status 1.
C22_MissingInput ==
    ~pdf_exists =>
        /\ pc \in {"main", "start", "done", "exited"}
        /\ saved = world.output_before
        /\ log = <<>>
        /\ text_dict = <<>>
        /\ replacements_made = 0
        /\ Returned => result = "False"
        /\ Exited => exit_code = 1

\* the redactor script, with a request it could use and a file at the
\* output path, has exited on a missing input
C22_Witness ==
    /\ ~pdf_exists
    /\ Exited
    /\ impl = "redactor"
    /\ Len(content_filters(replacements)) > 0
    /\ result = "False"
    /\ world.output_before # <<>>
    /\ saved = world.output_before

-----------------------------------------------------------------------------
(* C23: pageNum is 1-indexed.  Page p of the requests is doc[p] of the     *)
(* model, the page with the 0-based index p - 1.                           *)

\* pageNum of request k names a page of the document
InRange(k) == replacements[k].pageNum \in 1..Len(doc)

\* the warning "Invalid page number" for request k
InvalidPageWarnings(k) ==
    {i \in 1..Len(log) : log[i].req = k /\ log[i].outcome = "invalid_page"}

\* the loop of the function has come to request k or left it behind
Reached(k) ==
    IF impl = "positions" THEN pc \notin {"main", "start"} /\ result # "False"
    ELSE pc \in {"save", "done", "exited"} /\ result # "False"

C23_State ==
    impl \in {"positions", "hybrid"} =>
        \A k \in 1..Len(replacements) :
            /\ ~InRange(k) =>
                  /\ \A i \in 1..Len(log) :
                        log[i].req = k => log[i].outcome = "invalid_page"
                  /\ Cardinality(InvalidPageWarnings(k)) <= 1
                  /\ Reached(k) => Cardinality(InvalidPageWarnings(k)) = 1
            /\ InRange(k) =>
                  /\ InvalidPageWarnings(k) = {}
                  /\ (impl = "positions" /\ Reached(k)) =>
                        \E g \in 1..Len(replacements_by_page) :
                            /\ replacements_by_page[g].page = replacements[k].pageNum
                            /\ \E c \in 1..Len(replacements_by_page[g].reqs) :
                                  replacements_by_page[g].reqs[c] = k
                  /\ (impl = "hybrid" /\ Reached(k)) =>
                        \E i \in 1..Len(log) : log[i].req = k

C23_Step ==
    impl \in {"positions", "hybrid"} =>
        \A p \in 1..Len(doc) :
            doc'[p] # doc[p] => pc = "insert" /\ current_request.pageNum = p

\* C23: pageNum is 1-indexed in pdf_replace_text.py and the hybrid script.
\* A request with pageNum p in 1..N is applied to the page with index p - 1
\* and to no other page.  A request with pageNum outside 1..N (0, negative,
\* above N) gets the warning "Invalid page number" and nothing else, changes
\* no page, and the requests with a valid pageNum are still grouped under
\* their page (pdf_replace_text.py) or processed (hybrid).
C23_PageNumOneIndexed == [](C23_State) /\ [][C23_Step]_vars

\* after a skipped request with pageNum 0 or -1 the next request of the list
\* was replaced on page 1 and the document saved
C23_Witness ==
    /\ impl \in {"positions", "hybrid"}
    /\ Exited
    /\ Len(replacements) = 2
    /\ replacements[1].pageNum < 1
    /\ replacements[2].pageNum = 1
    /\ InvalidPageWarnings(1) # {}
    /\ EventsOf(2, "made") = 1
    /\ saved = <<doc>>

-----------------------------------------------------------------------------
(* C24: replace_all of replace_text_in_pdf.                                *)

\* the spans of page p of the input that contain old_text, in reading order
Containing(p) ==
    SelectSeq(AllSpans(world.input[p].lines),
              LAMBDA e : in_pdf_match(args, e.span.text))

\* the redactions of the run on page p
RedactionsOn(p) == {i \in 1..Len(log) : log[i].kind = "redact" /\ log[i].req = p}

\* the first page with a span that contains old_text
FirstPage == SetMin({p \in 1..Len(doc) : Len(Containing(p)) > 0})

\* C24: when replace_text_in_pdf has returned True, with replace_all false
\* at most one span of the whole document was redacted and replaced, the
\* first span containing old_text in page order, then reading order; with
\* replace_all true every span containing old_text on every page was.
C24_ReplaceAll ==
    (impl = "in_pdf" /\ Returned /\ result = "True") =>
        IF args.replace_all
        THEN \A p \in 1..Len(doc) :
                Cardinality(RedactionsOn(p)) = Len(Containing(p))
        ELSE /\ Cardinality(UNION {RedactionsOn(p) : p \in 1..Len(doc)}) <= 1
             /\ \A p \in 1..Len(doc) : \A i \in RedactionsOn(p) :
                   /\ p = FirstPage
                   /\ log[i].idx = Containing(p)[1].li
                   /\ log[i].span = Containing(p)[1].si

-----------------------------------------------------------------------------
(* word_to_pdf.py.  pdf_exists says whether the Word file exists; world    *)
(* holds what the three conversion methods meet on this machine; log has   *)
(* one record [method, returned] for every method that was called.         *)

Methods == <<"docx2pdf", "libreoffice", "reportlab">>

\* try_docx2pdf: the import, convert(), the test of the output file
try_docx2pdf(w) == w.docx2pdf = "ok"

\* try_libreoffice: cmd is the first candidate command whose --version
\* returns 0 (0: none does), convert the outcome of the conversion
try_libreoffice(w) == w.libreoffice.cmd # 0 /\ w.libreoffice.convert = "ok"

\* try_reportlab: the two imports, convert_with_reportlab
try_reportlab(w) == w.reportlab = "ok"

\* a control flow that goes on to the next method whatever was returned
try_every_method(k, returned) == IF k = Len(Methods) THEN "done" ELSE Methods[k + 1]

\* if try_...(word_path, pdf_path): return True;  the last method's result
\* is returned
after_method(k, returned) ==
    IF returned \/ k = Len(Methods) THEN "done" ELSE Methods[k + 1]

\* the file a method leaves at the output path
output_of(method, outcome, before) ==
    IF outcome = "ok" THEN <<[written_by |-> method]>>
    ELSE IF outcome = "empty_output" THEN <<EmptyFile>>
    ELSE before

\* if len(sys.argv) != 3: sys.exit(1)
MainWord ==
    /\ pc = "main"
    /\ script = "word_to_pdf.py"
    /\ IF Len(argv) # 3
       THEN exit_code' = 1 /\ pc' = "exited" /\ UNCHANGED impl
       ELSE impl' = "word" /\ pc' = "start" /\ UNCHANGED exit_code
    /\ UNCHANGED <<script, argv, args, world, compressed_size>>
    /\ UNCHANGED <<pdf_exists, replacements, doc, replacements_by_page, group, cursor,
                   text_dict, found, replacements_made, log, result, saved>>

\* convert_word_to_pdf: if not os.path.exists(word_path): return False
StartWord ==
    /\ pc = "start"
    /\ impl = "word"
    /\ IF missing_file(pdf_exists)
       THEN pc' = "done" /\ result' = "False"
       ELSE pc' = Methods[1] /\ UNCHANGED result
    /\ UNCHANGED <<impl, pdf_exists, replacements, doc, replacements_by_page, group,
                   cursor, text_dict, found, replacements_made, log, saved>>
    /\ UNCHANGED process_vars

\* the call of method k, its result r and the file it leaves
Tried(k, r, file) ==
    /\ impl = "word"
    /\ log' = Append(log, [method |-> Methods[k], returned |-> r])
    /\ saved' = file
    /\ pc' = after_method(k, r)
    /\ result' = IF r THEN "True"
                 ELSE IF k = Len(Methods) THEN "False" ELSE result
    /\ UNCHANGED <<impl, pdf_exists, replacements, doc, replacements_by_page, group,
                   cursor, text_dict, found, replacements_made>>
    /\ UNCHANGED process_vars

TryDocx2pdf ==
    /\ pc = "docx2pdf"
    /\ Tried(1, try_docx2pdf(world), output_of("docx2pdf", world.docx2pdf, saved))

TryLibreoffice ==
    /\ pc = "libreoffice"
    /\ Tried(2, try_libreoffice(world),
             output_of("libreoffice",
                       IF world.libreoffice.convert = "ok" THEN "ok" ELSE "none",
                       saved))

TryReportlab ==
    /\ pc = "reportlab"
    /\ Tried(3, try_reportlab(world), output_of("reportlab", world.reportlab, saved))

Docx2pdfOutcomes == {"import_error", "raises", "no_output", "empty_output", "ok"}
LibreofficeOutcomes ==
    {[cmd |-> 0, convert |-> "none"]}
    \cup {[cmd |-> c, convert |-> o] :
            c \in {1, 2, 3}, o \in {"raises", "no_pdf", "empty_pdf", "ok"}}
ReportlabOutcomes == {"no_docx", "no_reportlab", "raises", "no_output", "ok"}

InitWord ==
    \E exists \in BOOLEAN, line \in SeqsUpTo({PathIn}, 3), a \in Docx2pdfOutcomes,
       b \in LibreofficeOutcomes, c \in ReportlabOutcomes, before \in {<<>>, <<EmptyFile>>} :
        /\ script = "word_to_pdf.py"
        /\ argv = <<Word(<<"s">>)>> \o line
        /\ impl = "main"
        /\ pc = "main"
        /\ pdf_exists = exists
        /\ world = [docx2pdf |-> a, libreoffice |-> b, reportlab |-> c,
                    output_before |-> before]
        /\ saved = before
        /\ doc = <<>>
        /\ replacements = <<>>
        /\ args = NoArgs
        /\ exit_code = -1
        /\ replacements_by_page = <<>>
        /\ group = 0
        /\ cursor = 0
        /\ text_dict = <<>>
        /\ found = NoMatches
        /\ replacements_made = 0
        /\ log = <<>>
        /\ result = "none"
        /\ compressed_size = 0

NextWord ==
    \/ MainWord
    \/ StartWord
    \/ TryDocx2pdf
    \/ TryLibreoffice
    \/ TryReportlab
    \/ Exit

SpecWord == InitWord /\ [][NextWord]_vars

\* C25: convert_word_to_pdf calls docx2pdf, LibreOffice headless and
\* python-docx with reportlab in this order: a method is called only after
\* every earlier one returned False, none is called after one returned True,
\* the result is True exactly when some method returned True, all three
\* were called when it is False for an existing input, and no method is
\* called when the input file is missing.
C25_MethodsInOrder ==
    impl = "word" =>
        /\ Len(log) <= Len(Methods)
        /\ \A i \in 1..Len(log) : log[i].method = Methods[i]
        /\ \A i \in 1..(Len(log) - 1) : ~log[i].returned
        /\ Returned =>
              /\ result = "True" <=> \E i \in 1..Len(log) : log[i].returned
              /\ result = "False" <=> \A i \in 1..Len(log) : ~log[i].returned
              /\ (pdf_exists /\ result = "False") => Len(log) = Len(Methods)
        /\ ~pdf_exists => log = <<>> /\ saved = world.output_before

\* docx2pdf returned False, LibreOffice returned True, reportlab was not
\* called and the process has exited with status 0
C25_Witness ==
    /\ impl = "word"
    /\ Exited
    /\ Len(log) = 2
    /\ ~log[1].returned
    /\ log[2].returned
    /\ result = "True"
    /\ exit_code = 0

-----------------------------------------------------------------------------
(* pdf_compress.py.  A file is its size in bytes: saved is <<>> or         *)
(* <<[size |-> n]>>.  world holds the size of the input file and what the  *)
(* two saves produce: first is compress_pdf ([ok, size]), second the       *)
(* simpler save of main ([ok, size]; not ok: it raises).                   *)

MaxSize == 3

LowText == <<"l", "o", "w">>
MediumText == <<"m", "e", "d", "i", "u", "m">>

\* compression_level.lower() not in ['low', 'medium', 'high']  ->  'medium'
valid_level(t) == IF lower(t) \in {LowText, MediumText, <<"h", "i", "g", "h">>}
                  THEN t ELSE MediumText

\* if new_size < compressed_size: compressed_size = new_size
update_size(new_size, old_size) == IF new_size < old_size THEN new_size ELSE old_size

\* the checks of the command line and of the input file
MainCompress ==
    /\ pc = "main"
    /\ script = "pdf_compress.py"
    /\ IF Len(argv) < 3 \/ missing_file(pdf_exists)
       THEN exit_code' = 1 /\ pc' = "exited" /\ UNCHANGED <<impl, args>>
       ELSE /\ impl' = "compress"
            /\ args' = [compression_level |->
                           valid_level(IF Len(argv) > 3 THEN Arg(3).str ELSE MediumText)]
            /\ pc' = "start"
            /\ UNCHANGED exit_code
    /\ UNCHANGED <<script, argv, world, compressed_size>>
    /\ UNCHANGED <<pdf_exists, replacements, doc, replacements_by_page, group, cursor,
                   text_dict, found, replacements_made, log, result, saved>>

\* compress_pdf: doc.save(output_path, **save_options); return True, or
\* False on an exception
CompressPdf ==
    /\ pc = "start"
    /\ impl = "compress"
    /\ IF world.first.ok
       THEN saved' = <<[size |-> world.first.size]>> /\ result' = "True"
       ELSE result' = "False" /\ UNCHANGED saved
    /\ pc' = "verify"
    /\ UNCHANGED <<impl, pdf_exists, replacements, doc, replacements_by_page, group,
                   cursor, text_dict, found, replacements_made, log>>
    /\ UNCHANGED process_vars

\* main after compress_pdf: the three checks, the two sizes
VerifyOutput ==
    /\ pc = "verify"
    /\ impl = "compress"
    /\ IF result # "True" \/ saved = <<>> \/ saved[1].size = 0
       THEN exit_code' = 1 /\ pc' = "exited" /\ UNCHANGED compressed_size
       ELSE /\ compressed_size' = saved[1].size
            /\ pc' = IF saved[1].size >= world.original_size THEN "simpler" ELSE "stats"
            /\ UNCHANGED exit_code
    /\ UNCHANGED <<script, argv, args, world>>
    /\ UNCHANGED <<impl, pdf_exists, replacements, doc, replacements_by_page, group,
                   cursor, text_dict, found, replacements_made, log, result, saved>>

\* if compressed_size >= original_size: the input saved again to the output
\* path with garbage collection and deflate only
SimplerCompression ==
    /\ pc = "simpler"
    /\ impl = "compress"
    /\ IF world.second.ok
       THEN /\ saved' = <<[size |-> world.second.size]>>
            /\ compressed_size' = update_size(world.second.size, compressed_size)
       ELSE UNCHANGED <<saved, compressed_size>>
    /\ pc' = "stats"
    /\ UNCHANGED <<script, argv, exit_code, args, world>>
    /\ UNCHANGED <<impl, pdf_exists, replacements, doc, replacements_by_page, group,
                   cursor, text_dict, found, replacements_made, log, result>>

\* print(json.dumps(stats)); sys.exit(0).  size_reduction is in bytes here.
PrintStats ==
    /\ pc = "stats"
    /\ impl = "compress"
    /\ log' = Append(log, [success |-> TRUE,
                           original_size |-> world.original_size,
                           compressed_size |-> compressed_size,
                           size_reduction |-> world.original_size - compressed_size])
    /\ exit_code' = 0
    /\ pc' = "exited"
    /\ UNCHANGED <<script, argv, args, world, compressed_size>>
    /\ UNCHANGED <<impl, pdf_exists, replacements, doc, replacements_by_page, group,
                   cursor, text_dict, found, replacements_made, result, saved>>

SaveOutcomes ==
    {[ok |-> FALSE, size |-> 0]} \cup {[ok |-> TRUE, size |-> n] : n \in 0..MaxSize}

CompressLines ==
    {<<>>, <<PathIn>>, <<PathIn, PathOut>>}
    \cup {<<PathIn, PathOut, Word(level)>> : level \in {LowText, <<"x">>}}

InitCompress ==
    \E line \in CompressLines, exists \in BOOLEAN, original \in 1..MaxSize,
       a \in SaveOutcomes, b \in SaveOutcomes \ {[ok |-> TRUE, size |-> 0]},
       before \in {<<>>, <<[size |-> 1]>>} :
        /\ script = "pdf_compress.py"
        /\ argv = <<Word(<<"s">>)>> \o line
        /\ impl = "main"
        /\ pc = "main"
        /\ pdf_exists = exists
        /\ world = [original_size |-> original, first |-> a, second |-> b,
                    output_before |-> before]
        /\ saved = before
        /\ doc = <<>>
        /\ replacements = <<>>
        /\ args = NoArgs
        /\ exit_code = -1
        /\ replacements_by_page = <<>>
        /\ group = 0
        /\ cursor = 0
        /\ text_dict = <<>>
        /\ found = NoMatches
        /\ replacements_made = 0
        /\ log = <<>>
        /\ result = "none"
        /\ compressed_size = 0

NextCompress ==
    \/ MainCompress
    \/ CompressPdf
    \/ VerifyOutput
    \/ SimplerCompression
    \/ PrintStats

SpecCompress == InitCompress /\ [][NextCompress]_vars

\* C26: when pdf_compress.py exits with status 0, the compressed_size of the
\* statistics it printed is the size of the file at the output path, and
\* size_reduction is the input size minus that size, also when the first
\* save was not smaller than the input and the second, simpler save wrote
\* the output again.
C26_StatsAreTheOutputFile ==
    (impl = "compress" /\ Exited /\ exit_code = 0) =>
        /\ Len(log) = 1
        /\ saved # <<>>
        /\ log[1].compressed_size = saved[1].size
        /\ log[1].size_reduction = world.original_size - saved[1].size

-----------------------------------------------------------------------------
\* C27: when replace_text_at_positions of the redactor script returns
\* False because no request has an oldText that is not empty after
\* trimming, the file at the output path is as the process found it: it was
\* neither created nor truncated.
C27_NoFilterLeavesOutput ==
    (impl = "redactor" /\ Returned /\ pdf_exists /\ Len(replacements) > 0
        /\ Len(content_filters(replacements)) = 0) =>
        /\ result = "False"
        /\ saved = world.output_before

-----------------------------------------------------------------------------
(* sign_pdf of pdf_sign.py and rotate_pdf of pdf_rotate.py.  A page is     *)
(* [rotation, signatures]; page i of the model has the 0-based index       *)
(* i - 1.  args.page_num is the 0-based page number given to sign_pdf.     *)

MaxPages == 3

Rotations == {0, 90, 180, 270}

\* the documents of up to MaxPages pages
PageDocs ==
    UNION {[1..n -> [rotation : Rotations, signatures : {0}]] : n \in 1..MaxPages}

\* doc[page_num] of PyMuPDF for page_num < len(doc): a negative number
\* counts from the end.  Below -len(doc) the number wraps around again or,
\* when world.index_error, the access raises IndexError.
page_at(page_num, n) == (page_num % n) + 1

\* if page_num >= len(doc): return False
sign_out_of_range(page_num, n) == page_num >= n

\* the checks, fitz.open, the test of page_num
StartSign ==
    /\ pc = "start"
    /\ impl = "sign"
    /\ IF missing_file(pdf_exists) \/ sign_out_of_range(args.page_num, Len(doc))
          \/ (args.page_num < 0 - Len(doc) /\ world.index_error)
       THEN pc' = "done" /\ result' = "False"
       ELSE pc' = "sign" /\ UNCHANGED result
    /\ UNCHANGED <<impl, pdf_exists, replacements, doc, replacements_by_page, group,
                   cursor, text_dict, found, replacements_made, log, saved>>
    /\ UNCHANGED process_vars

\* page = doc[page_num]; insert_text or insert_image on it, or the error
\* for another signature_type
SignPage ==
    /\ pc = "sign"
    /\ impl = "sign"
    /\ IF args.signature_type \in {"text", "image"} /\ world.insert = "ok"
       THEN /\ doc' = [doc EXCEPT ![page_at(args.page_num, Len(doc))].signatures = @ + 1]
            /\ pc' = "save"
            /\ UNCHANGED result
       ELSE /\ pc' = "done"
            /\ result' = "False"
            /\ UNCHANGED doc
    /\ UNCHANGED <<impl, pdf_exists, replacements, replacements_by_page, group,
                   cursor, text_dict, found, replacements_made, log, saved>>
    /\ UNCHANGED process_vars

InitSign ==
    \E d \in PageDocs, exists \in BOOLEAN, type \in {"text", "image", "stamp"},
       ins \in {"ok", "raises"}, ie \in BOOLEAN, pn \in (0 - MaxPages - 1)..(MaxPages + 1) :
      \E before \in {<<>>, <<d>>} :
        /\ type = "stamp" => ins = "ok"
        /\ pn >= 0 - Len(d) => ~ie
        /\ \A i \in 1..Len(d) : d[i].rotation = 0
        /\ script = "none"
        /\ argv = <<>>
        /\ impl = "sign"
        /\ pc = "start"
        /\ pdf_exists = exists
        /\ args = [signature_type |-> type, page_num |-> pn]
        /\ world = [input |-> d, output_before |-> before, insert |-> ins,
                    index_error |-> ie]
        /\ saved = before
        /\ doc = d
        /\ replacements = <<>>
        /\ exit_code = -1
        /\ replacements_by_page = <<>>
        /\ group = 0
        /\ cursor = 0
        /\ text_dict = <<>>
        /\ found = NoMatches
        /\ replacements_made = 0
        /\ log = <<>>
        /\ result = "none"
        /\ compressed_size = 0

NextSign ==
    \/ StartSign
    \/ SignPage
    \/ Save

SpecSign == InitSign /\ [][NextSign]_vars

\* C28: sign_pdf rejects every page_num outside 0..N-1, negative numbers
\* included: it returns False and writes no output; and it never signs a
\* page other than the one whose 0-based index is page_num.
C28_SignOnlyPageNum ==
    impl = "sign" =>
        /\ args.page_num \notin 0..(Len(doc) - 1) =>
              /\ Returned => result = "False"
              /\ saved = world.output_before
        /\ \A i \in 1..Len(doc) :
              doc[i] # world.input[i] => i - 1 = args.page_num

-----------------------------------------------------------------------------
\* the requests the log has a successful insertion for
Inserted == {k \in 1..Len(replacements) : EventsOf(k, "made") > 0}

\* the log has the event of a request that was not replaced: it was
\* skipped, not found, or none of its insertions worked
NotReplaced(k) ==
    \E i \in 1..Len(log) :
        /\ log[i].req = k
        /\ \/ log[i].kind = "skip"
           \/ log[i].outcome \in {"invalid_page", "not_found", "could_not_insert"}

\* C29: in replace_text_at_positions of pdf_replace_text.py and of the
\* hybrid script replacements_made is at every point the number of
\* requests processed so far whose insertion succeeded: it is incremented
\* exactly once for such a request, never for a request that was unmatched,
\* skipped or failed to insert, and never exceeds the number of requests.
C29_CountsInsertedRequests ==
    impl \in {"positions", "hybrid"} =>
        /\ replacements_made = Cardinality(Inserted)
        /\ replacements_made <= Len(replacements)
        /\ \A k \in 1..Len(replacements) :
              /\ EventsOf(k, "made") <= 1
              /\ NotReplaced(k) => EventsOf(k, "made") = 0

-----------------------------------------------------------------------------
(* rotate_pdf of pdf_rotate.py.  args is [rotation, apply_to_all,          *)
(* page_numbers], page_numbers [given, list]: not given (None) or a list   *)
(* of 0-based page numbers.  A run is up to MaxCalls calls with the same   *)
(* arguments,                                                              *)
(* each on the output of the call before; log has one entry per call that  *)
(* rotated pages, the list of the page numbers it rotated.                 *)

MaxCalls == 4

NoPageNumbers == [given |-> FALSE, list |-> <<>>]
PageNumbers(list) == [given |-> TRUE, list |-> list]

\* list(range(len(doc))), [0], or [p for p in page_numbers if 0 <= p < len(doc)]
pages_to_rotate(a, n) ==
    IF a.apply_to_all THEN [i \in 1..n |-> i - 1]
    ELSE IF ~a.page_numbers.given THEN <<0>>
    ELSE SelectSeq(a.page_numbers.list, LAMBDA q : 0 <= q /\ q < n)

\* for page_num in pages_to_rotate:
\*     page.set_rotation((page.rotation + rotation) % 360)
RECURSIVE rotate_pages(_, _, _)
rotate_pages(d, pages, rotation) ==
    IF Len(pages) = 0 THEN d
    ELSE rotate_pages([d EXCEPT ![pages[1] + 1].rotation = (@ + rotation) % 360],
                      Tail(pages), rotation)

\* the checks, fitz.open, the pages to rotate
StartRotate ==
    /\ pc = "start"
    /\ impl = "rotate"
    /\ IF \/ missing_file(pdf_exists)
          \/ args.rotation \notin {90, 180, 270}
          \/ Len(pages_to_rotate(args, Len(doc))) = 0
       THEN pc' = "done" /\ result' = "False"
       ELSE pc' = "rotate" /\ UNCHANGED result
    /\ UNCHANGED <<impl, pdf_exists, replacements, doc, replacements_by_page, group,
                   cursor, text_dict, found, replacements_made, log, saved>>
    /\ UNCHANGED process_vars

\* the loop over pages_to_rotate
RotatePages ==
    /\ pc = "rotate"
    /\ impl = "rotate"
    /\ doc' = rotate_pages(doc, pages_to_rotate(args, Len(doc)), args.rotation)
    /\ log' = Append(log, pages_to_rotate(args, Len(doc)))
    /\ pc' = "save"
    /\ UNCHANGED <<impl, pdf_exists, replacements, replacements_by_page, group,
                   cursor, text_dict, found, replacements_made, result, saved>>
    /\ UNCHANGED process_vars

\* rotate_pdf is called again, with the output of the last call as input
RotateAgain ==
    /\ pc = "done"
    /\ impl = "rotate"
    /\ result = "True"
    /\ Len(log) < MaxCalls
    /\ doc' = saved[1]
    /\ result' = "none"
    /\ pc' = "start"
    /\ UNCHANGED <<impl, pdf_exists, replacements, replacements_by_page, group,
                   cursor, text_dict, found, replacements_made, log, saved>>
    /\ UNCHANGED process_vars

InitRotate ==
    \E d \in PageDocs, exists \in BOOLEAN, angle \in {0, 45, 90, 180, 270},
       all \in BOOLEAN,
       pages \in {NoPageNumbers} \cup {PageNumbers(l) : l \in SeqsUpTo({-1, 0, 1}, 2)} :
      \E before \in {<<>>, <<d>>} :
        /\ all => pages = NoPageNumbers
        /\ script = "none"
        /\ argv = <<>>
        /\ impl = "rotate"
        /\ pc = "start"
        /\ pdf_exists = exists
        /\ args = [rotation |-> angle, apply_to_all |-> all, page_numbers |-> pages]
        /\ world = [input |-> d, output_before |-> before]
        /\ saved = before
        /\ doc = d
        /\ replacements = <<>>
        /\ exit_code = -1
        /\ replacements_by_page = <<>>
        /\ group = 0
        /\ cursor = 0
        /\ text_dict = <<>>
        /\ found = NoMatches
        /\ replacements_made = 0
        /\ log = <<>>
        /\ result = "none"
        /\ compressed_size = 0

NextRotate ==
    \/ StartRotate
    \/ RotatePages
    \/ Save
    \/ RotateAgain

SpecRotate == InitRotate /\ [][NextRotate]_vars

\* page i of the document is one rotate_pdf is asked to rotate
SelectedPage(i) ==
    \/ args.apply_to_all
    \/ ~args.apply_to_all /\ ~args.page_numbers.given /\ i = 1
    \/ /\ ~args.apply_to_all
       /\ args.page_numbers.given
       /\ \E k \in 1..Len(args.page_numbers.list) : args.page_numbers.list[k] = i - 1

\* the list of page numbers names no page of the document
NoValidPage ==
    /\ ~args.apply_to_all
    /\ args.page_numbers.given
    /\ \A i \in 1..Len(doc) : ~SelectedPage(i)

\* call number n has returned True
Called(n) == pc = "done" /\ result = "True" /\ Len(log) = n

\* C30: rotate_pdf accepts only the angles 90, 180 and 270: for another
\* angle it returns False and saves nothing.  After one call with an
\* accepted angle the rotation of every selected page is (its rotation
\* before + angle) mod 360 and every other page has the rotation it had;
\* the rotations stay in {0, 90, 180, 270}; after four calls with 90 or two
\* calls with 180 every page has its original rotation; with apply_to_all
\* false and no valid page number in the list nothing is saved.
C30_Rotation ==
    impl = "rotate" =>
        /\ args.rotation \notin {90, 180, 270} =>
              /\ Returned => result = "False"
              /\ saved = world.output_before
              /\ doc = world.input
        /\ Called(1) =>
              \A i \in 1..Len(doc) :
                  doc[i].rotation =
                      IF SelectedPage(i)
                      THEN (world.input[i].rotation + args.rotation) % 360
                      ELSE world.input[i].rotation
        /\ \A i \in 1..Len(doc) : doc[i].rotation \in Rotations
        /\ (Called(4) /\ args.rotation = 90) => doc = world.input
        /\ (Called(2) /\ args.rotation = 180) => doc = world.input
        /\ NoValidPage =>
              /\ Returned => result = "False"
              /\ saved = world.output_before

=============================================================================
